---- MODULE Spec2Model ----
(***************************************************************************)
(* A model of the lazy operator / expression evaluation engine of MatX:    *)
(* operator nodes composed into expression trees, the PreRun / PostRun     *)
(* lifecycle of transform nodes with temporary buffers, and the host       *)
(* executor's evaluation loop.                                             *)
(*                                                                         *)
(* Dimensions and coordinates are 0-based as in the source; sequences are  *)
(* 1-based, so At(s, i) reads element i of a source array.                 *)
(***************************************************************************)
EXTENDS Integers, Sequences, FiniteSets, TLC

\* ------------------------------------------------------------------------
\* Bounds of the model
\* ------------------------------------------------------------------------
\* largest number of operator nodes composed over tensors in one expression
MaxOps == 2
\* largest number of run() cycles on one expression
MaxCycles == 2
\* largest explicit thread count handed to a host executor
MaxThreads == 3
\* largest extent of one dimension of an executed operator
MaxExtent == 3
\* largest number of nodes composed over a tensor before a call on the result
MaxViews == 1
\* largest number of sample points of an interpolation
MaxSamples == 4

\* ------------------------------------------------------------------------
\* Helpers
\* ------------------------------------------------------------------------
At(s, i) == s[i + 1]

SetAt(s, i, v) == [s EXCEPT ![i + 1] = v]

RECURSIVE Product(_)
Product(s) == IF s = <<>> THEN 1 ELSE Head(s) * Product(Tail(s))

Last(s) == s[Len(s)]

Range(s) == {s[i] : i \in 1..Len(s)}

\* ------------------------------------------------------------------------
\* Sentinels of the index type (scaled down from the top of index_t)
\* ------------------------------------------------------------------------
matxKeepDim == 1000007
matxDropDim == 1000006
matxEnd == 1000005
matxKeepStride == 1000004
matxIdxSentinel == 1000003

\* ------------------------------------------------------------------------
\* Operator nodes.  A tree is a sequence of nodes; a node's operands (kids)
\* are indices of earlier nodes and the root is the last node.
\* ------------------------------------------------------------------------
TransformKinds == {"stdd", "all", "hist", "cov"}

ViewKinds == {"slice", "reverse", "remap", "repmat", "flatten"}

Methods == {"LINEAR", "NEAREST", "NEXT", "PREV", "SPLINE"}

MkNode(kind, kids, rank) ==
  [kind |-> kind, kids |-> kids, rank |-> rank,
   shape_ |-> <<>>, out_dims_ |-> <<>>, sizes_ |-> <<>>, dims_ |-> <<>>,
   starts_ |-> <<>>, strides_ |-> <<>>, strided |-> FALSE,
   reps_ |-> <<>>, DIM |-> 0, num_levels_ |-> 0, method_ |-> "NONE"]

\* a tensor view: a leaf holding storage of the given shape
Tensor(shape) == [MkNode("tensor", <<>>, Len(shape)) EXCEPT !.shape_ = shape]

Rank(t, n) == t[n].rank

\* RemapOp::Size needs the rank of the index operator (a template parameter)
RECURSIVE Size(_, _, _)

\* a flattened size that adds the extents up
FlattenSizeSum(t, n, dim) ==
  IF dim = 0
    THEN LET r == Rank(t, t[n].kids[1])
         IN IF r = 2 THEN Size(t, t[n].kids[1], 0) + Size(t, t[n].kids[1], 1)
            ELSE Size(t, t[n].kids[1], 0)
    ELSE 1

\* FlattenOp::Size
FlattenSize(t, n, dim) ==
  IF dim = 0
    THEN Product([r \in 1..Rank(t, t[n].kids[1]) |-> Size(t, t[n].kids[1], r - 1)])
    ELSE 1

Size(t, n, dim) ==
  LET nd == t[n] IN
  CASE nd.kind = "tensor" -> At(nd.shape_, dim)
    [] nd.kind \in TransformKinds -> At(nd.out_dims_, dim)
    [] nd.kind = "argmin" -> 0
    [] nd.kind = "slice" -> At(nd.sizes_, dim)
    [] nd.kind = "reverse" -> Size(t, nd.kids[1], dim)
    [] nd.kind = "remap" ->
         IF dim = nd.DIM
           THEN IF Rank(t, nd.kids[2]) = 0 THEN 1 ELSE Size(t, nd.kids[2], 0)
           ELSE Size(t, nd.kids[1], dim)
    [] nd.kind = "repmat" -> Size(t, nd.kids[1], dim) * At(nd.reps_, dim)
    [] nd.kind = "flatten" -> FlattenSize(t, n, dim)
    [] nd.kind = "interp1" -> Size(t, nd.kids[3], dim)

Shape(t, n) == [d \in 1..Rank(t, n) |-> Size(t, n, d - 1)]

TotalSize(t, n) == Product(Shape(t, n))

RECURSIVE GetIdxFromAbs(_, _)
\* the coordinates of flat index abs in a shape, last dimension fastest
GetIdxFromAbs(shape, abs) ==
  IF shape = <<>> THEN <<>>
  ELSE Append(GetIdxFromAbs(SubSeq(shape, 1, Len(shape) - 1), abs \div Last(shape)),
              abs % Last(shape))

\* every coordinate tuple of a shape
Coords(shape) ==
  {c \in [1..Len(shape) -> 0..Product(shape)] : \A d \in 1..Len(shape) : c[d] < shape[d]}

RECURSIVE FlatIndex(_, _)
\* the storage offset of a coordinate tuple in a dense row-major tensor
FlatIndex(shape, idx) ==
  IF shape = <<>> THEN 0
  ELSE FlatIndex(SubSeq(shape, 1, Len(shape) - 1), SubSeq(idx, 1, Len(idx) - 1))
         * Last(shape) + Last(idx)

\* ------------------------------------------------------------------------
\* Construction of operator nodes (the constructors of the node classes).
\* op, a, x, v, xq, idx are indices of already constructed nodes of t.
\* ------------------------------------------------------------------------
\* out_dims_[r] = a_.Size(r) for r < ORank
OperandDims(t, a, ORank) == [r \in 1..ORank |-> Size(t, a, r - 1)]

StddOp(t, a, ORank) ==
  [MkNode("stdd", <<a>>, ORank) EXCEPT !.out_dims_ = OperandDims(t, a, ORank)]

AllOp(t, a, ORank) ==
  [MkNode("all", <<a>>, ORank) EXCEPT !.out_dims_ = OperandDims(t, a, ORank)]

ArgMinOp(t, a, ORank) == MkNode("argmin", <<a>>, ORank)

HistOp(t, a, num_levels) ==
  LET r == Rank(t, a)
      dims == OperandDims(t, a, r)
  IN [MkNode("hist", <<a>>, r) EXCEPT
        !.num_levels_ = num_levels,
        !.out_dims_ = SetAt(dims, Len(dims) - 1, num_levels - 1)]

CovOp(t, a) ==
  [MkNode("cov", <<a>>, Rank(t, a)) EXCEPT
     !.out_dims_ = OperandDims(t, a, Rank(t, a))]

ReverseOp(t, op, DIM) ==
  [MkNode("reverse", <<op>>, Rank(t, op)) EXCEPT !.DIM = DIM]

RemapOp(t, op, idx, DIM) ==
  [MkNode("remap", <<op, idx>>, Rank(t, op)) EXCEPT !.DIM = DIM]

\* the scalar form repeats by the same amount in every dimension
RepMatOp(t, op, reps) ==
  [MkNode("repmat", <<op>>, Rank(t, op)) EXCEPT
     !.reps_ = [dim \in 1..Rank(t, op) |-> reps]]

\* the array form repeats by reps[dim] in dimension dim
RepMatOpArray(t, op, reps) ==
  [MkNode("repmat", <<op>>, Rank(t, op)) EXCEPT
     !.reps_ = [dim \in 1..Rank(t, op) |-> reps[dim]]]

FlattenOp(t, op1) == MkNode("flatten", <<op1>>, 1)

\* ceil(double(a) / double(b)) cast back to the index type, for b > 0
CeilDiv(a, b) == IF a >= 0 THEN (a + b - 1) \div b ELSE -((-a) \div b)

\* One iteration of the constructor loop of SliceOp for input dimension i;
\* acc carries d, sizes_, dims_, starts_, strides_ and the failed assertions.
SliceStep(t, op, starts, ends, strides, strided, acc, i) ==
  LET start == IF At(starts, i) < 0 THEN Size(t, op, i) + At(starts, i) ELSE At(starts, i)
      end == IF At(ends, i) < 0 THEN Size(t, op, i) + At(ends, i) ELSE At(ends, i)
      okStart == (start > matxIdxSentinel) \/ (start < Size(t, op, i))
      okEnd == (end > matxIdxSentinel) \/ (end <= Size(t, op, i))
      strides1 == IF strided THEN Append(acc.strides_, At(strides, i)) ELSE acc.strides_
      raw == IF end = matxEnd THEN Size(t, op, i) - start ELSE end - start
      sz == IF strided THEN CeilDiv(raw, At(strides1, acc.d)) ELSE raw
      a1 == [acc EXCEPT !.starts_ = Append(@, start), !.strides_ = strides1,
                        !.err = @ \/ ~okStart \/ ~okEnd]
  IN IF end # matxDropDim
       THEN [a1 EXCEPT !.err = @ \/ (end = matxKeepDim),
                       !.dims_ = Append(@, i),
                       !.sizes_ = Append(@, sz),
                       !.d = @ + 1]
       ELSE a1

RECURSIVE SliceLoop(_, _, _, _, _, _, _, _)
SliceLoop(t, op, starts, ends, strides, strided, acc, i) ==
  IF i >= Rank(t, op) THEN acc
  ELSE SliceLoop(t, op, starts, ends, strides, strided,
                 SliceStep(t, op, starts, ends, strides, strided, acc, i), i + 1)

\* the result of the constructor: the node, and whether an assertion failed
SliceOp(t, op, DIM, starts, ends, strides, strided) ==
  LET acc == SliceLoop(t, op, starts, ends, strides, strided,
                       [d |-> 0, sizes_ |-> <<>>, dims_ |-> <<>>, starts_ |-> <<>>,
                        strides_ |-> <<>>, err |-> FALSE], 0)
  IN [node |-> [MkNode("slice", <<op>>, DIM) EXCEPT
                  !.sizes_ = acc.sizes_, !.dims_ = acc.dims_,
                  !.starts_ = acc.starts_, !.strides_ = acc.strides_,
                  !.strided = strided],
      err |-> acc.err \/ acc.d # DIM]

\* a constructor that compares the last dimensions only
Interp1CompatibleLastDimOnly(t, x, v, xq) ==
  Size(t, x, Rank(t, x) - 1) = Size(t, v, Rank(t, v) - 1)

\* the checks of the constructor of Interp1Op
Interp1Compatible(t, x, v, xq) ==
  /\ Size(t, x, Rank(t, x) - 1) = Size(t, v, Rank(t, v) - 1)
  /\ \A ri \in 2..Rank(t, x) : Size(t, xq, Rank(t, xq) - ri) = Size(t, x, Rank(t, x) - ri)
  /\ \A ri \in 2..Rank(t, v) : Size(t, xq, Rank(t, xq) - ri) = Size(t, v, Rank(t, v) - ri)

Interp1Op(t, x, v, xq, method) ==
  [MkNode("interp1", <<x, v, xq>>, Rank(t, xq)) EXCEPT !.method_ = method]

\* ------------------------------------------------------------------------
\* Element access of the view nodes: the coordinates of the operand that a
\* call at the given coordinates reads (get_impl), and the tensor element
\* a call finally reaches.  data holds, per node, the values of an index
\* tensor (<<>> for every other node).
\* ------------------------------------------------------------------------
\* SliceOp::get_impl
SliceGetImpl(nd, inds) ==
  [i1 \in 1..Len(nd.starts_) |->
     LET js == {j \in 0..(nd.rank - 1) : At(nd.dims_, j) = i1 - 1}
     IN IF js = {} THEN At(nd.starts_, i1 - 1)
        ELSE LET j == CHOOSE j \in js : TRUE
             IN IF nd.strided
                  THEN At(nd.starts_, j) + At(inds, j) * At(nd.strides_, i1 - 1)
                  ELSE At(nd.starts_, j) + At(inds, j)]

\* a reversal that is off by one
ReverseGetImplNoMinusOne(t, n, idx) ==
  IF Rank(t, n) = 0 THEN <<>>
  ELSE SetAt(idx, t[n].DIM, Size(t, t[n].kids[1], t[n].DIM) - At(idx, t[n].DIM))

\* ReverseOp::get_impl
ReverseGetImpl(t, n, idx) ==
  IF Rank(t, n) = 0 THEN <<>>
  ELSE SetAt(idx, t[n].DIM, Size(t, t[n].kids[1], t[n].DIM) - At(idx, t[n].DIM) - 1)

\* the value of an index tensor at coordinates c; a read outside the tensor
\* returns g
TensorValue(t, data, n, c, g) ==
  IF \A d \in 1..Len(c) : c[d] >= 0 /\ c[d] < t[n].shape_[d]
    THEN data[n][FlatIndex(t[n].shape_, c) + 1]
    ELSE g

\* a remap that reads the index operator at coordinate 0 always
RemapGetImplFirstIndex(t, data, n, ind, g) ==
  LET idx == t[n].kids[2]
  IN SetAt(ind, t[n].DIM,
           IF Rank(t, idx) = 0 THEN TensorValue(t, data, idx, <<>>, g)
           ELSE TensorValue(t, data, idx, <<0>>, g))

\* RemapOp::get_impl
RemapGetImpl(t, data, n, ind, g) ==
  LET idx == t[n].kids[2]
  IN SetAt(ind, t[n].DIM,
           IF Rank(t, idx) = 0 THEN TensorValue(t, data, idx, <<>>, g)
           ELSE TensorValue(t, data, idx, <<At(ind, t[n].DIM)>>, g))

\* a repeat that wraps around at the factor
RepMatGetImplModReps(t, n, idx) ==
  IF Rank(t, n) = 0 THEN <<>>
  ELSE [i1 \in 1..Len(idx) |-> idx[i1] % t[n].reps_[i1]]

\* RepMatOp::get_impl
RepMatGetImpl(t, n, idx) ==
  IF Rank(t, n) = 0 THEN <<>>
  ELSE [i1 \in 1..Len(idx) |-> idx[i1] % Size(t, t[n].kids[1], i1 - 1)]

\* FlattenOp::operator(): *RandomOperatorIterator{op1_, id0}
FlattenGetImpl(t, n, id0) == GetIdxFromAbs(Shape(t, t[n].kids[1]), id0[1])

RECURSIVE get_value(_, _, _, _, _)
\* the tensor element that a call on node n at coordinates c returns
get_value(t, data, n, c, g) ==
  LET nd == t[n] IN
  CASE nd.kind = "tensor" -> [leaf |-> n, at |-> c]
    [] nd.kind = "slice" -> get_value(t, data, nd.kids[1], SliceGetImpl(nd, c), g)
    [] nd.kind = "reverse" -> get_value(t, data, nd.kids[1], ReverseGetImpl(t, n, c), g)
    [] nd.kind = "remap" -> get_value(t, data, nd.kids[1], RemapGetImpl(t, data, n, c, g), g)
    [] nd.kind = "repmat" -> get_value(t, data, nd.kids[1], RepMatGetImpl(t, n, c), g)
    [] nd.kind = "flatten" -> get_value(t, data, nd.kids[1], FlattenGetImpl(t, n, c), g)

\* what a read outside an array may return
Garbage == {-1, 7}

Returned(v) == [val |-> v, err |-> FALSE]

DimError == [val |-> 0, err |-> TRUE]

RECURSIVE SizeCall(_, _, _)
\* the outcomes of Size(dim) for any dim, in range or not
SizeCall(t, n, dim) ==
  LET nd == t[n]
      inRange == dim >= 0 /\ dim < nd.rank
      inner == SizeCall(t, nd.kids[1], dim)
  IN
  CASE nd.kind = "tensor" ->
         IF inRange THEN {Returned(At(nd.shape_, dim))} ELSE {DimError}
    [] nd.kind \in TransformKinds ->
         IF inRange THEN {Returned(At(nd.out_dims_, dim))}
         ELSE {Returned(g) : g \in Garbage}
    [] nd.kind = "argmin" -> {Returned(0)}
    [] nd.kind = "slice" ->
         IF inRange THEN {Returned(At(nd.sizes_, dim))}
         ELSE {Returned(g) : g \in Garbage}
    [] nd.kind = "reverse" -> inner
    [] nd.kind = "remap" ->
         IF dim = nd.DIM
           THEN {Returned(IF Rank(t, nd.kids[2]) = 0 THEN 1 ELSE Size(t, nd.kids[2], 0))}
           ELSE inner
    [] nd.kind = "repmat" ->
         IF inRange THEN {IF r.err THEN r ELSE Returned(r.val * At(nd.reps_, dim)) : r \in inner}
         ELSE {r \in inner : r.err} \cup {Returned(g) : g \in Garbage}
    [] nd.kind = "flatten" -> {Returned(FlattenSize(t, n, dim))}
    [] nd.kind = "interp1" -> SizeCall(t, nd.kids[3], dim)

\* ------------------------------------------------------------------------
\* Capabilities: get_capability<Cap>() of every node class.  The value of a
\* kind is a number; the kinds, their defaults, their combination and the
\* value a tensor reports are defined outside the source.  caps gives, per
\* node, what a tensor at that place reports.
\* ------------------------------------------------------------------------
ELEMENTS_PER_THREAD == "ELEMENTS_PER_THREAD"

\* any capability kind other than the granularity; its values are 0 and 1
\* and 1 constrains nothing
OTHER_CAPABILITY == "OTHER_CAPABILITY"

\* ElementsPerThread::ONE
ONE == 1

\* the granularities a node can report, and the largest of them
ElementsPerThreadValues == {1, 2, 4}

MaxElementsPerThread == 4

\* capability_attributes<Cap>::default_value: the value that constrains nothing
default_value(Cap) == IF Cap = ELEMENTS_PER_THREAD THEN MaxElementsPerThread ELSE 1

\* combine_capabilities<Cap>(values...): the most restrictive of the values
combine_capabilities(Cap, values) == CHOOSE v \in values : \A w \in values : v <= w

RECURSIVE get_capability(_, _, _, _)

\* a view that forwards the granularity of its operand
ViewCapabilityForwarding(t, n, Cap, caps) ==
  combine_capabilities(Cap, {default_value(Cap)}
                              \cup {get_capability(t, k, Cap, caps) : k \in Range(t[n].kids)})

\* SliceOp, ReverseOp, RemapOp, RepMatOp, FlattenOp: ONE for the granularity,
\* for any other kind the default combined with op_ (and idx_ for a remap)
ViewCapability(t, n, Cap, caps) ==
  IF Cap = ELEMENTS_PER_THREAD THEN ONE
  ELSE combine_capabilities(Cap, {default_value(Cap)}
                                   \cup {get_capability(t, k, Cap, caps) : k \in Range(t[n].kids)})

\* StddOp, AllOp, ArgMinOp, HistOp, CovOp: the default combined with a_
TransformCapability(t, n, Cap, caps) ==
  combine_capabilities(Cap, {default_value(Cap), get_capability(t, t[n].kids[1], Cap, caps)})

\* Interp1Op: ONE for the granularity, else the default combined with x_,
\* v_ and xq_
Interp1Capability(t, n, Cap, caps) ==
  IF Cap = ELEMENTS_PER_THREAD THEN ONE
  ELSE combine_capabilities(Cap, {default_value(Cap)}
                                   \cup {get_capability(t, k, Cap, caps) : k \in Range(t[n].kids)})

\* dctOp (kids: out_, in_): ONE for the granularity, else the default
\* combined with out_ and in_
DctCapability(t, n, Cap, caps) ==
  IF Cap = ELEMENTS_PER_THREAD THEN ONE
  ELSE combine_capabilities(Cap, {default_value(Cap),
                                   get_capability(t, t[n].kids[1], Cap, caps),
                                   get_capability(t, t[n].kids[2], Cap, caps)})

\* BlackScholes (kids: out_, V_, S_, K_, r_, T_): the default combined with
\* V_, S_, K_, r_ and T_
BlackScholesCapability(t, n, Cap, caps) ==
  combine_capabilities(Cap, {default_value(Cap)}
                              \cup {get_capability(t, t[n].kids[k], Cap, caps) : k \in 2..6})

\* InterpSplineTridiagonalFillOp (kids: dl_, d_, du_, b_, x_, v_): ONE for the
\* granularity, else the default alone
TridiagonalFillCapability(t, n, Cap, caps) ==
  IF Cap = ELEMENTS_PER_THREAD THEN ONE ELSE default_value(Cap)

get_capability(t, n, Cap, caps) ==
  LET nd == t[n] IN
  CASE nd.kind = "tensor" -> caps[n]
    [] nd.kind \in ViewKinds -> ViewCapability(t, n, Cap, caps)
    [] nd.kind \in TransformKinds \cup {"argmin"} -> TransformCapability(t, n, Cap, caps)
    [] nd.kind = "interp1" -> Interp1Capability(t, n, Cap, caps)
    [] nd.kind = "dct" -> DctCapability(t, n, Cap, caps)
    [] nd.kind = "blackscholes" -> BlackScholesCapability(t, n, Cap, caps)
    [] nd.kind = "tridiagfill" -> TridiagonalFillCapability(t, n, Cap, caps)

\* ------------------------------------------------------------------------
\* Memory of an evaluation: per node the raw pointer (ptr / ptr_m_, 0 is
\* nullptr) and the temporary tensor bound to it, the allocator's cells (a
\* handle is the index of its cell and is never reused), the events of the
\* current run and whether an exception is propagating.
\* ------------------------------------------------------------------------
NoTensor == [shape |-> <<>>, h |-> 0]

Ev(e, n) == [ev |-> e, n |-> n]

Log(m, e, n) == [m EXCEPT !.log = Append(@, Ev(e, n))]

matxAlloc(m, n, tag) ==
  [Log(m, "Alloc", n) EXCEPT
     !.heap = Append(@, [owner |-> n, tag |-> tag, live |-> TRUE, frees |-> 0,
                         filled |-> FALSE])]

\* the handle the last matxAlloc returned
LastHandle(m) == Len(m.heap)

matxFree(m, n, h) ==
  IF h = 0 THEN m
  ELSE [Log(m, "Free", n) EXCEPT !.heap[h].live = FALSE, !.heap[h].frees = @ + 1]

\* allocate storage for shape, store the pointer and bind the tensor to it
AllocateTempTensor(m, n, shape) ==
  LET m1 == matxAlloc(m, n, "tmp")
  IN [m1 EXCEPT !.ptr[n] = LastHandle(m1),
                !.tmp[n] = [shape |-> shape, h |-> LastHandle(m1)]]

\* ------------------------------------------------------------------------
\* Element access.  Indexing a node indexes the inner nodes its operator()
\* reads: a view reads its operand(s), a transform reads its temporary
\* tensor only, interp1 reads its three operands.
\* ------------------------------------------------------------------------
ReadsOperandsViews == {"slice", "reverse", "remap", "repmat", "flatten", "interp1"}

CallReads(nd) ==
  IF nd.kind \in ReadsOperandsViews THEN nd.kids ELSE <<>>

RECURSIVE Touched(_, _)
RECURSIVE TouchedAll(_, _)
Touched(t, n) == <<n>> \o TouchedAll(t, CallReads(t[n]))

TouchedAll(t, ks) ==
  IF ks = <<>> THEN <<>> ELSE Touched(t, Head(ks)) \o TouchedAll(t, Tail(ks))

RECURSIVE LogAll(_, _, _)
LogAll(m, e, ns) ==
  IF ns = <<>> THEN m ELSE LogAll(Log(m, e, Head(ns)), e, Tail(ns))

\* every element of node n is read (by a compute provider or an executor)
IndexAll(m, t, n) ==
  IF TotalSize(t, n) = 0 THEN m ELSE LogAll(m, "Index", Touched(t, n))

\* the location operator()(indices...) of a transform node reads
TransformCall(m, n, indices) == [h |-> m.tmp[n].h, at |-> indices]

\* ------------------------------------------------------------------------
\* PreRun / PostRun of every node kind.  fail names the step of a SPLINE
\* PreRun that throws ("none", "fill" or "solve").
\* ------------------------------------------------------------------------
Raise(m) == [m EXCEPT !.exc = TRUE]

\* Exec of a reduction transform: the compute provider reads the whole
\* operand a_ and fills the output tensor
TransformExec(m, t, n) ==
  LET m1 == IndexAll(Log(m, "Exec", n), t, t[n].kids[1])
  IN Log([m1 EXCEPT !.heap[m1.tmp[n].h].filled = TRUE], "Fill", n)

\* the run of InterpSplineTridiagonalFillOp: reads x_ and v_ everywhere
SplineFill(m, t, n, fail) ==
  IF fail = "fill" THEN Raise(m)
  ELSE IndexAll(IndexAll(Log(m, "Exec", n), t, t[n].kids[1]), t, t[n].kids[2])

\* the run of M = solve(A, M): overwrites m_ with the derivatives
SplineSolve(m, t, n, fail) ==
  IF fail = "solve" THEN Raise(m)
  ELSE Log([m EXCEPT !.heap[m.tmp[n].h].filled = TRUE], "Fill", n)

RECURSIVE PreRun(_, _, _, _)

InnerPreRun(m, t, n, fail) == PreRun(m, t, t[n].kids[1], fail)

\* a PreRun that computes before its operand is prepared
TransformPreRunComputeFirst(m, t, n, fail) ==
  LET m1 == TransformExec(AllocateTempTensor(m, n, t[n].out_dims_), t, n)
  IN InnerPreRun(m1, t, n, fail)

\* a PreRun that sizes the buffer like the operand
TransformPreRunOperandShape(m, t, n, fail) ==
  LET m1 == InnerPreRun(m, t, n, fail)
  IN IF m1.exc THEN m1
     ELSE TransformExec(AllocateTempTensor(m1, n, Shape(t, t[n].kids[1])), t, n)

\* HistOp, CovOp, StddOp, AllOp
TransformPreRun(m, t, n, fail) ==
  LET m1 == InnerPreRun(m, t, n, fail)
  IN IF m1.exc THEN m1
     ELSE TransformExec(AllocateTempTensor(m1, n, t[n].out_dims_), t, n)

\* ArgMinOp, SliceOp, ReverseOp, RepMatOp, FlattenOp
ForwardPreRun(m, t, n, fail) == PreRun(m, t, t[n].kids[1], fail)

RemapPreRun(m, t, n, fail) == PreRun(m, t, t[n].kids[1], fail)

Interp1PreRun(m, t, n, fail) ==
  IF t[n].method_ = "SPLINE"
    THEN LET m1 == AllocateTempTensor(m, n, Shape(t, t[n].kids[2]))
             m2 == matxAlloc(m1, n, "tridiag")
             ptr_tridiag_ == LastHandle(m2)
             m3 == SplineFill(m2, t, n, fail)
             m4 == IF m3.exc THEN m3 ELSE SplineSolve(m3, t, n, fail)
         IN IF m4.exc THEN m4 ELSE matxFree(m4, n, ptr_tridiag_)
    ELSE m

PreRunBody(m, t, n, fail) ==
  LET k == t[n].kind IN
  CASE k = "tensor" -> m
    [] k \in TransformKinds -> TransformPreRun(m, t, n, fail)
    [] k \in {"argmin", "slice", "reverse", "repmat", "flatten"} -> ForwardPreRun(m, t, n, fail)
    [] k = "remap" -> RemapPreRun(m, t, n, fail)
    [] k = "interp1" -> Interp1PreRun(m, t, n, fail)

PreRun(m, t, n, fail) ==
  LET m1 == PreRunBody(Log(m, "PreRun", n), t, n, fail)
  IN IF m1.exc THEN m1 ELSE Log(m1, "PreRunEnd", n)

RECURSIVE PostRun(_, _, _)

\* a PostRun that forwards and keeps its buffer
TransformPostRunNoFree(m, t, n) == PostRun(m, t, t[n].kids[1])

\* HistOp, CovOp, StddOp, AllOp
TransformPostRun(m, t, n) ==
  LET m1 == PostRun(m, t, t[n].kids[1])
  IN matxFree(m1, n, m1.ptr[n])

\* SliceOp, ReverseOp, RepMatOp, FlattenOp
ForwardPostRun(m, t, n) == PostRun(m, t, t[n].kids[1])

RemapPostRun(m, t, n) == PostRun(m, t, t[n].kids[1])

\* ArgMinOp declares no PostRun
ArgMinPostRun(m, t, n) == m

Interp1PostRun(m, t, n) ==
  IF t[n].method_ = "SPLINE" THEN matxFree(m, n, m.ptr[n]) ELSE m

PostRunBody(m, t, n) ==
  LET k == t[n].kind IN
  CASE k = "tensor" -> m
    [] k \in TransformKinds -> TransformPostRun(m, t, n)
    [] k \in {"slice", "reverse", "repmat", "flatten"} -> ForwardPostRun(m, t, n)
    [] k = "argmin" -> ArgMinPostRun(m, t, n)
    [] k = "remap" -> RemapPostRun(m, t, n)
    [] k = "interp1" -> Interp1PostRun(m, t, n)

PostRun(m, t, n) == Log(PostRunBody(Log(m, "PostRun", n), t, n), "PostRunEnd", n)

\* ------------------------------------------------------------------------
\* State
\* ------------------------------------------------------------------------
\* an expression under evaluation
VARIABLES tree, phase, cycles, mem, ex
\* a host executor and the operator it executes
VARIABLES MODE, params_, built, opShape, epc, i, pending, calls, by, out
\* a view node under construction and the call made on it
VARIABLES vt, vdata, vargs, vcall, vpc

lifeVars == <<tree, phase, cycles, mem, ex>>

execVars == <<MODE, params_, built, opShape, epc, i, pending, calls, by, out>>

viewVars == <<vt, vdata, vargs, vcall, vpc>>

vars == <<tree, phase, cycles, mem, ex,
          MODE, params_, built, opShape, epc, i, pending, calls, by, out,
          vt, vdata, vargs, vcall, vpc>>

Root(t) == Len(t)

NumOps(t) == Cardinality({n \in 1..Len(t) : t[n].kind # "tensor"})

LeafShapes == {<<2>>, <<2, 2>>}

EmptyMem(k) ==
  [ptr |-> [n \in 1..k |-> 0], tmp |-> [n \in 1..k |-> NoTensor],
   heap |-> <<>>, log |-> <<>>, exc |-> FALSE]

\* a newly constructed node starts with a null pointer and no tensor
Extend(m, k) ==
  [m EXCEPT !.ptr = @ \o [n \in 1..k |-> 0], !.tmp = @ \o [n \in 1..k |-> NoTensor]]

\* no host executor under study
ExecIdle ==
  /\ MODE = "SINGLE"
  /\ params_ = [threads_ |-> 1]
  /\ built = [MATX_EN_OMP |-> FALSE, procs |-> 1]
  /\ opShape = <<>>
  /\ epc = "off"
  /\ i = 0
  /\ pending = {}
  /\ calls = <<>>
  /\ by = <<>>
  /\ out = <<>>

\* no view under study
ViewIdle ==
  /\ vt = <<>>
  /\ vdata = <<>>
  /\ vargs = [kind |-> "none"]
  /\ vcall = [op |-> "none"]
  /\ vpc = "off"

\* no expression under study
LifeIdle ==
  /\ tree = <<>>
  /\ phase = "off"
  /\ cycles = 0
  /\ mem = EmptyMem(0)
  /\ ex = "none"

InitLife ==
  /\ tree \in {<<Tensor(s)>> : s \in LeafShapes}
  /\ phase = "build"
  /\ cycles = 0
  /\ mem = EmptyMem(1)
  /\ ex = "none"
  /\ ExecIdle
  /\ ViewIdle

\* ------------------------------------------------------------------------
\* Composition: a new node is built over the current root
\* ------------------------------------------------------------------------
CanWrap ==
  /\ phase = "build"
  /\ NumOps(tree) < MaxOps
  /\ tree[Root(tree)].kind # "argmin"

Add(nodes) ==
  /\ tree' = tree \o nodes
  /\ mem' = Extend(mem, Len(nodes))
  /\ UNCHANGED <<phase, cycles, ex>>
  /\ UNCHANGED execVars
  /\ UNCHANGED viewVars

\* the reduced ranks stdd, all and argmin can be built with
ReducedRanks(r) == 0..(IF r = 0 THEN 0 ELSE r - 1)

WrapStdd ==
  /\ CanWrap
  /\ \E ORank \in ReducedRanks(Rank(tree, Root(tree))) :
       Add(<<StddOp(tree, Root(tree), ORank)>>)

WrapAll ==
  /\ CanWrap
  /\ \E ORank \in ReducedRanks(Rank(tree, Root(tree))) :
       Add(<<AllOp(tree, Root(tree), ORank)>>)

WrapArgMin ==
  /\ CanWrap
  /\ \E ORank \in ReducedRanks(Rank(tree, Root(tree))) :
       Add(<<ArgMinOp(tree, Root(tree), ORank)>>)

WrapHist ==
  /\ CanWrap
  /\ Rank(tree, Root(tree)) >= 1
  /\ \E num_levels \in {4} : Add(<<HistOp(tree, Root(tree), num_levels)>>)

WrapCov ==
  /\ CanWrap
  /\ Rank(tree, Root(tree)) >= 1
  /\ Add(<<CovOp(tree, Root(tree))>>)

WrapReverse ==
  /\ CanWrap
  /\ \E DIM \in 0..(Rank(tree, Root(tree)) - 1) :
       Add(<<ReverseOp(tree, Root(tree), DIM)>>)

WrapRepMat ==
  /\ CanWrap
  /\ Rank(tree, Root(tree)) >= 1
  /\ \E reps \in {2} : Add(<<RepMatOp(tree, Root(tree), reps)>>)

WrapFlatten ==
  /\ CanWrap
  /\ Rank(tree, Root(tree)) > 1
  /\ Add(<<FlattenOp(tree, Root(tree))>>)

\* slices that keep every dimension, or drop the first one
WrapSlice ==
  /\ CanWrap
  /\ Rank(tree, Root(tree)) >= 1
  /\ \E drop \in BOOLEAN :
       LET r == Rank(tree, Root(tree))
           starts == [d \in 1..r |-> 0]
           ends == [d \in 1..r |-> IF drop /\ d = 1 THEN matxDropDim ELSE matxEnd]
           made == SliceOp(tree, Root(tree), IF drop THEN r - 1 ELSE r,
                           starts, ends, <<>>, FALSE)
       IN /\ ~made.err
          /\ Add(<<made.node>>)

\* the current root becomes the remapped operand or the index operator; the
\* other operand is a tensor
WrapRemap ==
  /\ CanWrap
  /\ \E asIdx \in BOOLEAN :
       IF asIdx
         THEN /\ Rank(tree, Root(tree)) <= 1
              /\ \E DIM \in 0..1 :
                   Add(<<Tensor(<<2, 2>>),
                         RemapOp(tree \o <<Tensor(<<2, 2>>)>>, Root(tree) + 1, Root(tree), DIM)>>)
         ELSE /\ Rank(tree, Root(tree)) >= 1
              /\ \E DIM \in 0..(Rank(tree, Root(tree)) - 1) :
                   Add(<<Tensor(<<2>>),
                         RemapOp(tree \o <<Tensor(<<2>>)>>, Root(tree), Root(tree) + 1, DIM)>>)

\* the current root becomes the sample points, the sample values or the
\* query points; the other two operands are tensors of its shape
WrapInterp1 ==
  /\ CanWrap
  /\ Rank(tree, Root(tree)) >= 1
  /\ \E role \in 1..3, method \in Methods :
       LET c == Root(tree)
           leaf == Tensor(Shape(tree, c))
           t2 == tree \o <<leaf, leaf>>
           kids == CASE role = 1 -> <<c, c + 1, c + 2>>
                     [] role = 2 -> <<c + 1, c, c + 2>>
                     [] role = 3 -> <<c + 1, c + 2, c>>
       IN /\ Interp1Compatible(t2, kids[1], kids[2], kids[3])
          /\ Add(<<leaf, leaf, Interp1Op(t2, kids[1], kids[2], kids[3], method)>>)

\* ------------------------------------------------------------------------
\* run(): PreRun on the whole tree, the executor's loop over every output
\* coordinate, PostRun on the whole tree
\* ------------------------------------------------------------------------
\* hist, cov and the SPLINE method only compile for the CUDA executor
NeedsCuda(t) ==
  \E n \in 1..Len(t) : \/ t[n].kind \in {"hist", "cov"}
                        \/ (t[n].kind = "interp1" /\ t[n].method_ = "SPLINE")

HasSpline(t) == \E n \in 1..Len(t) : t[n].kind = "interp1" /\ t[n].method_ = "SPLINE"

RunPreRun ==
  /\ phase \in {"build", "done"}
  /\ cycles < MaxCycles
  /\ NumOps(tree) >= 1
  /\ \E e \in {"host", "cuda"}, fail \in {"none", "fill", "solve"} :
       /\ NeedsCuda(tree) => e = "cuda"
       /\ fail # "none" => HasSpline(tree)
       /\ ex' = e
       /\ mem' = PreRun([mem EXCEPT !.log = <<>>], tree, Root(tree), fail)
       /\ phase' = IF mem'.exc THEN "failed" ELSE "prerun"
  /\ UNCHANGED <<tree, cycles>>
  /\ UNCHANGED execVars
  /\ UNCHANGED viewVars

\* an argmin root is executed through its Exec member, which reads a_
RunExec ==
  /\ phase = "prerun"
  /\ mem' = IF tree[Root(tree)].kind = "argmin"
              THEN IndexAll(Log(mem, "Exec", Root(tree)), tree, tree[Root(tree)].kids[1])
              ELSE IndexAll(mem, tree, Root(tree))
  /\ phase' = "exec"
  /\ UNCHANGED <<tree, cycles, ex>>
  /\ UNCHANGED execVars
  /\ UNCHANGED viewVars

RunPostRun ==
  /\ phase = "exec"
  /\ mem' = PostRun(mem, tree, Root(tree))
  /\ phase' = "done"
  /\ cycles' = cycles + 1
  /\ UNCHANGED <<tree, ex>>
  /\ UNCHANGED execVars
  /\ UNCHANGED viewVars

NextLife ==
  \/ WrapStdd \/ WrapAll \/ WrapArgMin \/ WrapHist \/ WrapCov
  \/ WrapReverse \/ WrapRepMat \/ WrapFlatten \/ WrapSlice \/ WrapRemap
  \/ WrapInterp1
  \/ RunPreRun \/ RunExec \/ RunPostRun

Spec == InitLife /\ [][NextLife]_vars

\* ------------------------------------------------------------------------
\* Properties of the lifecycle
\* ------------------------------------------------------------------------
Nodes == 1..Len(tree)

Has(e, n) == \E p \in 1..Len(mem.log) : mem.log[p] = Ev(e, n)

Count(e, n) == Cardinality({p \in 1..Len(mem.log) : mem.log[p] = Ev(e, n)})

\* the position of the first event e of node n in the current run
Pos(e, n) == CHOOSE p \in 1..Len(mem.log) : mem.log[p] = Ev(e, n)
                  /\ \A q \in 1..(p - 1) : mem.log[q] # Ev(e, n)

\* event e of node n happened before position p
Before(e, n, p) == \E q \in 1..(p - 1) : mem.log[q] = Ev(e, n)

CellsOf(n) == {h \in 1..Len(mem.heap) : mem.heap[h].owner = n}

IsReduction(n) == tree[n].kind \in TransformKinds

IsSpline(n) == tree[n].kind = "interp1" /\ tree[n].method_ = "SPLINE"

IsView(n) == tree[n].kind \in ViewKinds

\* C1: in an evaluation, no operator node is indexed before its PreRun has
\* completed or after its PostRun has begun (stated for the nodes built by
\* composition; a tensor has no lifecycle of its own).
C1_IndexedOnlyBetweenPreRunAndPostRun ==
  \A p \in 1..Len(mem.log) :
    (mem.log[p].ev = "Index" /\ tree[mem.log[p].n].kind # "tensor")
      => /\ Before("PreRunEnd", mem.log[p].n, p)
         /\ ~Before("PostRun", mem.log[p].n, p)

\* C2: once PostRun of a node that allocates temporaries has returned, every
\* buffer the node ever allocated has been freed, and freed exactly once.
C2_PostRunFreesExactlyWhatPreRunAllocated ==
  \A n \in Nodes :
    ((IsReduction(n) \/ IsSpline(n)) /\ Has("PostRunEnd", n))
      => \A h \in CellsOf(n) : ~mem.heap[h].live /\ mem.heap[h].frees = 1

\* C2 witness: a reduction and a spline node have each been through two
\* PreRun/PostRun cycles.
C2_Witness ==
  /\ phase = "done"
  /\ cycles >= 2
  /\ \E n \in Nodes : IsReduction(n) /\ Cardinality(CellsOf(n)) >= 2
                        /\ Has("PostRunEnd", n)
  /\ \E n \in Nodes : IsSpline(n) /\ Cardinality(CellsOf(n)) >= 4
                        /\ Has("PostRunEnd", n)

\* C3: PreRun of a reduction transform completes PreRun of its operand, then
\* allocates its buffer, then invokes the compute provider; and a reduction
\* nested as the operand is read only after its buffer was filled.
C3_OperandPreparedThenAllocThenCompute ==
  \A n \in Nodes :
    (IsReduction(n) /\ Has("Exec", n))
      => LET a == tree[n].kids[1] IN
         /\ Has("PreRunEnd", a)
         /\ Has("Alloc", n)
         /\ Pos("PreRunEnd", a) < Pos("Alloc", n)
         /\ Pos("Alloc", n) < Pos("Exec", n)
         /\ IsReduction(a) =>
              \A p \in 1..Len(mem.log) :
                mem.log[p] = Ev("Index", a) => Before("Fill", a, p)

\* C3 witness: a reduction over a reduction, both computed, the inner one
\* read by the outer one.
C3_Witness ==
  \E n \in Nodes :
    /\ IsReduction(n) /\ IsReduction(tree[n].kids[1])
    /\ Has("Fill", n)
    /\ Has("Index", tree[n].kids[1])

\* C4: after PreRun of a reduction transform, its temporary tensor has the
\* node's declared shape and lives in the filled buffer the node points to;
\* element access at a coordinate reads that buffer at the same coordinate
\* and reads no operand.
C4_BufferHasDeclaredShapeAndIsRead ==
  \A n \in Nodes :
    (IsReduction(n) /\ Has("PreRunEnd", n) /\ ~Has("PostRun", n))
      => /\ mem.tmp[n].shape = Shape(tree, n)
         /\ mem.tmp[n].h = mem.ptr[n]
         /\ mem.ptr[n] \in CellsOf(n)
         /\ mem.heap[mem.ptr[n]].live /\ mem.heap[mem.ptr[n]].filled
         /\ \A c \in Coords(Shape(tree, n)) :
              TransformCall(mem, n, c) = [h |-> mem.ptr[n], at |-> c]
         /\ Touched(tree, n) = <<n>>

\* C4 witness: a prepared reduction whose shape differs from its operand's.
C4_Witness ==
  \E n \in Nodes :
    /\ IsReduction(n) /\ Has("PreRunEnd", n) /\ ~Has("PostRun", n)
    /\ Shape(tree, n) # Shape(tree, tree[n].kids[1])
    /\ Shape(tree, n) # <<>>
    /\ phase = "exec"

\* C5: PreRun (PostRun) of a view node calls PreRun (PostRun) exactly once
\* on every inner operator the view holds.
C5_ViewForwardsToEveryInner ==
  \A n \in Nodes :
    IsView(n) =>
      \A k \in Range(tree[n].kids) :
        /\ Has("PreRunEnd", n) => Count("PreRun", k) = 1
        /\ Has("PostRunEnd", n) => Count("PostRun", k) = 1

\* C6: the operands of an interp1 node that are themselves operators have
\* completed PreRun before anything reads them.
C6_Interp1OperandsPrepared ==
  \A n \in Nodes :
    tree[n].kind = "interp1" =>
      \A k \in Range(tree[n].kids) :
        tree[k].kind # "tensor" =>
          \A p \in 1..Len(mem.log) :
            mem.log[p] = Ev("Index", k) => Before("PreRunEnd", k, p)

\* C7: after a PreRun that failed partway, no buffer of the failing node is
\* still allocated.
C7_FailedPreRunReleasesTemporaries ==
  phase = "failed" =>
    \A n \in Nodes : IsSpline(n) => \A h \in CellsOf(n) : ~mem.heap[h].live

\* ------------------------------------------------------------------------
\* The host executor.  built is the build the executor was compiled in:
\* whether MATX_EN_OMP is defined, and what omp_get_num_procs() returns.
\* ------------------------------------------------------------------------
ThreadsMode == {"SINGLE", "SELECT", "ALL"}

HostExecParams(threads) == [threads_ |-> threads]

GetNumThreads(params) == params.threads_

omp_get_num_procs(b) == b.procs

\* HostExecutor(): the thread count the default constructor chooses
HostExecutorDefault(mode, b) ==
  LET n_threads == IF mode = "SINGLE" THEN 1
                   ELSE IF mode = "ALL" /\ b.MATX_EN_OMP THEN omp_get_num_procs(b)
                   ELSE 1
  IN HostExecParams(n_threads)

\* HostExecutor(const HostExecParams &params) : params_(params)
HostExecutorFromParams(mode, params) == params

\* the branch of Exec that runs the loop under "omp parallel for"
UsesParallelFor(b, params) == b.MATX_EN_OMP /\ GetNumThreads(params) > 1

\* a loop condition that stops one iteration early
LoopCondStopsEarly(k, size) == k < size - 1

\* for (index_t i = 0; i < size; i++)
LoopCond(k, size) == k < size

\* a parallel loop that starts at the second iteration
ParallelIterationsFromOne(size) == {k \in 1..(size - 1) : LoopCond(k, size)}

\* the iterations "omp parallel for" hands out to the team
ParallelIterations(size) == {k \in 0..(size - 1) : LoopCond(k, size)}

\* The executed operator is an element-wise assignment out = f(in) over
\* dense tensors of the operator's shape: a call at idx reads in at idx and
\* writes out at idx.
InputAt(shape, idx) == 10 + FlatIndex(shape, idx)

ElementWise(v) == 2 * v + 1

\* nothing executed yet: out is unwritten, no thread has run an iteration
EmptyRun(shape) ==
  [out |-> [k \in 1..Product(shape) |-> [val |-> 0, writes |-> 0]],
   by |-> [k \in 1..Product(shape) |-> {}]]

\* op(args...) with args the coordinates idx, run by thread thr
Apply(st, shape, idx, thr) ==
  LET k == FlatIndex(shape, idx) + 1
  IN [out |-> [st.out EXCEPT ![k] = [val |-> ElementWise(InputAt(shape, idx)),
                                     writes |-> @.writes + 1]],
      by |-> [st.by EXCEPT ![k] = @ \cup {thr}]]

\* the body of the loop of Exec for flat index k
LoopBody(st, shape, k, thr) == Apply(st, shape, GetIdxFromAbs(shape, k), thr)

RECURSIVE SeqLoop(_, _, _)
\* the sequential loop of Exec from flat index k on, all in the caller
SeqLoop(st, shape, k) ==
  IF LoopCond(k, Product(shape)) THEN SeqLoop(LoopBody(st, shape, k, 0), shape, k + 1)
  ELSE st

\* shapes of executed operators: a scalar, vectors, matrices
ExecShapes ==
  {<<>>} \cup {<<e>> : e \in 0..MaxExtent} \cup {<<2, 3>>, <<0, 3>>, <<2, 0>>}

Builds == {[MATX_EN_OMP |-> o, procs |-> p] : o \in BOOLEAN, p \in 1..MaxThreads}

InitExec ==
  /\ LifeIdle
  /\ ViewIdle
  /\ built \in Builds
  /\ MODE = "SINGLE"
  /\ params_ = HostExecutorDefault("SINGLE", built)
  /\ opShape = <<>>
  /\ epc = "ready"
  /\ i = 0
  /\ pending = {}
  /\ calls = <<>>
  /\ by = <<>>
  /\ out = <<>>

Resting == epc \in {"ready", "done"}

NoRun ==
  /\ opShape' = <<>>
  /\ epc' = "ready"
  /\ i' = 0
  /\ pending' = {}
  /\ calls' = <<>>
  /\ by' = <<>>
  /\ out' = <<>>

ConstructDefault ==
  /\ Resting
  /\ \E mode \in ThreadsMode :
       /\ MODE' = mode
       /\ params_' = HostExecutorDefault(mode, built)
  /\ NoRun
  /\ UNCHANGED built
  /\ UNCHANGED lifeVars
  /\ UNCHANGED viewVars

ConstructParams ==
  /\ Resting
  /\ \E mode \in ThreadsMode, threads \in 1..MaxThreads :
       /\ MODE' = mode
       /\ params_' = HostExecutorFromParams(mode, HostExecParams(threads))
  /\ NoRun
  /\ UNCHANGED built
  /\ UNCHANGED lifeVars
  /\ UNCHANGED viewVars

\* Exec on a rank-0 operator: op()
ExecRank0 ==
  /\ Resting
  /\ opShape' = <<>>
  /\ LET st == Apply(EmptyRun(<<>>), <<>>, <<>>, 0)
     IN out' = st.out /\ by' = st.by
  /\ calls' = << <<>> >>
  /\ epc' = "done"
  /\ i' = 0
  /\ pending' = {}
  /\ UNCHANGED <<MODE, params_, built>>
  /\ UNCHANGED lifeVars
  /\ UNCHANGED viewVars

\* Exec on an operator of rank >= 1 enters the sequential loop
ExecSeqBegin ==
  /\ Resting
  /\ ~UsesParallelFor(built, params_)
  /\ \E shape \in ExecShapes :
       /\ Len(shape) >= 1
       /\ opShape' = shape
       /\ out' = EmptyRun(shape).out
       /\ by' = EmptyRun(shape).by
  /\ calls' = <<>>
  /\ epc' = "seq"
  /\ i' = 0
  /\ pending' = {}
  /\ UNCHANGED <<MODE, params_, built>>
  /\ UNCHANGED lifeVars
  /\ UNCHANGED viewVars

LoopStep ==
  /\ epc = "seq"
  /\ LoopCond(i, Product(opShape))
  /\ LET st == LoopBody([out |-> out, by |-> by], opShape, i, 0)
     IN out' = st.out /\ by' = st.by
  /\ calls' = Append(calls, GetIdxFromAbs(opShape, i))
  /\ i' = i + 1
  /\ UNCHANGED <<MODE, params_, built, opShape, epc, pending>>
  /\ UNCHANGED lifeVars
  /\ UNCHANGED viewVars

LoopExit ==
  /\ epc = "seq"
  /\ ~LoopCond(i, Product(opShape))
  /\ epc' = "done"
  /\ UNCHANGED <<MODE, params_, built, opShape, i, pending, calls, by, out>>
  /\ UNCHANGED lifeVars
  /\ UNCHANGED viewVars

\* Exec on an operator of rank >= 1 enters the parallel region
ExecParBegin ==
  /\ Resting
  /\ UsesParallelFor(built, params_)
  /\ \E shape \in ExecShapes :
       /\ Len(shape) >= 1
       /\ opShape' = shape
       /\ out' = EmptyRun(shape).out
       /\ by' = EmptyRun(shape).by
       /\ pending' = ParallelIterations(Product(shape))
  /\ calls' = <<>>
  /\ epc' = "par"
  /\ i' = 0
  /\ UNCHANGED <<MODE, params_, built>>
  /\ UNCHANGED lifeVars
  /\ UNCHANGED viewVars

\* a thread of the team runs one of the iterations not yet handed out
ParStep ==
  /\ epc = "par"
  /\ \E thr \in 1..GetNumThreads(params_), k \in pending :
       /\ LET st == LoopBody([out |-> out, by |-> by], opShape, k, thr)
          IN out' = st.out /\ by' = st.by
       /\ pending' = pending \ {k}
  /\ UNCHANGED <<MODE, params_, built, opShape, epc, i, calls>>
  /\ UNCHANGED lifeVars
  /\ UNCHANGED viewVars

\* the implicit barrier at the end of the parallel loop
ParJoin ==
  /\ epc = "par"
  /\ pending = {}
  /\ epc' = "done"
  /\ UNCHANGED <<MODE, params_, built, opShape, i, pending, calls, by, out>>
  /\ UNCHANGED lifeVars
  /\ UNCHANGED viewVars

NextExec ==
  \/ ConstructDefault \/ ConstructParams
  \/ ExecRank0
  \/ ExecSeqBegin \/ LoopStep \/ LoopExit
  \/ ExecParBegin \/ ParStep \/ ParJoin

SpecExec == InitExec /\ [][NextExec]_vars

\* ------------------------------------------------------------------------
\* Properties of the host executor
\* ------------------------------------------------------------------------
\* the coordinate tuple stored at flat index k of a row-major shape
RowMajorCoord(shape, k) == CHOOSE c \in Coords(shape) : FlatIndex(shape, c) = k

HasZeroExtent(shape) == \E d \in 1..Len(shape) : shape[d] = 0

\* C8: a finished Exec has invoked the element access exactly once for each
\* coordinate tuple of the shape; single-threaded, the invocations came in
\* ascending flat-index order, flat index k going to the row-major coordinate
\* k; a rank-0 operator got one zero-argument call; a shape with an extent
\* of 0 got no call.
C8_ExecVisitsEachCoordinateOnce ==
  /\ epc = "done" =>
       /\ Len(out) = Cardinality(Coords(opShape))
       /\ \A c \in Coords(opShape) : out[FlatIndex(opShape, c) + 1].writes = 1
       /\ opShape = <<>> => calls = << <<>> >>
       /\ HasZeroExtent(opShape) => (calls = <<>> /\ out = <<>>)
       /\ (Len(opShape) >= 1 /\ GetNumThreads(params_) = 1) =>
            /\ Len(calls) = Product(opShape)
            /\ \A k \in 1..Len(calls) : calls[k] = RowMajorCoord(opShape, k - 1)
  /\ epc = "seq" =>
       /\ Len(calls) = i
       /\ \A k \in 1..Len(calls) : calls[k] = RowMajorCoord(opShape, k - 1)

\* C8 witness: a single-threaded Exec over a 2 x 3 operator has finished.
C8_Witness ==
  /\ epc = "done"
  /\ opShape = <<2, 3>>
  /\ GetNumThreads(params_) = 1
  /\ Len(calls) = 6
  /\ calls[4] = <<1, 0>>

\* C9: with a thread count above 1, at every point of an Exec no flat index
\* has been processed twice, and once Exec has finished every flat index was
\* processed by exactly one thread and the output equals the output of the
\* single-threaded loop.
C9_EachIndexByOneThreadSameOutput ==
  (GetNumThreads(params_) > 1 /\ Len(opShape) >= 1) =>
    /\ epc \in {"seq", "par", "done"} =>
         \A k \in 1..Len(out) : out[k].writes <= 1 /\ Cardinality(by[k]) = out[k].writes
    /\ epc = "par" =>
         \A k \in 1..Len(out) : (out[k].writes = 0) <=> (k - 1 \in pending)
    /\ epc = "done" =>
         /\ Len(out) = Product(opShape)
         /\ \A k \in 1..Len(out) : out[k].writes = 1 /\ Cardinality(by[k]) = 1
         /\ out = SeqLoop(EmptyRun(opShape), opShape, 0).out

\* C9 witness: a parallel Exec over a 2 x 3 operator has finished, three
\* different threads having run iterations out of order.
C9_Witness ==
  /\ epc = "done"
  /\ opShape = <<2, 3>>
  /\ built.MATX_EN_OMP
  /\ GetNumThreads(params_) = 3
  /\ by[1] = {3} /\ by[2] = {1} /\ by[6] = {2}

\* C10: an executor in SINGLE mode has thread count 1, however constructed,
\* and its Exec runs every flat index on the calling thread.
C10_SingleModeIsSingleThreaded ==
  MODE = "SINGLE" =>
    /\ GetNumThreads(params_) = 1
    /\ epc # "par"
    /\ \A k \in 1..Len(by) : by[k] \subseteq {0}

\* ------------------------------------------------------------------------
\* Construction of view nodes from their arguments, and one call (element
\* access or Size) on the result
\* ------------------------------------------------------------------------
ViewLeafShapes == {<<3>>, <<3, 4>>}

SliceStarts == {-4, -1, 0, 1}

SliceEnds == {-1, 2, 3, 5, matxEnd, matxDropDim}

SliceStrides == {1, 2}

NoArgs == [kind |-> "none"]

InitView ==
  /\ LifeIdle
  /\ ExecIdle
  /\ vt \in {<<Tensor(s)>> : s \in ViewLeafShapes}
  /\ vdata = << <<>> >>
  /\ vargs = NoArgs
  /\ vcall = [op |-> "none"]
  /\ vpc = "build"

VRoot == Len(vt)

VCanWrap ==
  /\ vpc = "build"
  /\ NumOps(vt) < MaxViews
  /\ vt[VRoot].kind # "argmin"

VAdd(nodes, datas, args) ==
  /\ vt' = vt \o nodes
  /\ vdata' = vdata \o datas
  /\ vargs' = args
  /\ UNCHANGED <<vcall, vpc>>
  /\ UNCHANGED lifeVars
  /\ UNCHANGED execVars

\* the number of dimensions a slice keeps (its template parameter DIM)
KeptDims(ends) == Cardinality({d \in 1..Len(ends) : ends[d] # matxDropDim})

\* slice(op, starts, ends) and slice(op, starts, ends, strides) on an operand
\* that goes to SliceOp: the node is built, or an assertion of the constructor
\* fails.  (slice hands a tensor view to the tensor's own Slice, which is
\* outside the source; the leaf here stands for any operand with a shape and
\* element access, and its elements are named by their coordinates.)
MakeSlice ==
  /\ VCanWrap
  /\ Rank(vt, VRoot) >= 1
  /\ \E strided \in BOOLEAN :
     \E starts \in [1..Rank(vt, VRoot) -> SliceStarts],
        ends \in [1..Rank(vt, VRoot) -> SliceEnds],
        strides \in [1..Rank(vt, VRoot) -> SliceStrides] :
       LET made == SliceOp(vt, VRoot, KeptDims(ends), starts, ends, strides, strided)
           args == [kind |-> "slice", op |-> VRoot, starts |-> starts, ends |-> ends,
                    strides |-> IF strided THEN strides ELSE [d \in 1..Len(starts) |-> 1],
                    err |-> made.err]
       IN /\ vt[VRoot].kind # "tensor" =>
               /\ ~strided
               /\ \A d \in 1..Len(starts) : starts[d] \in {0, 1} /\ ends[d] \in {matxEnd, matxDropDim}
          /\ ~strided => \A d \in 1..Len(strides) : strides[d] = 1
          /\ IF made.err
               THEN /\ vargs' = args
                    /\ vpc' = "failed"
                    /\ UNCHANGED <<vt, vdata, vcall>>
                    /\ UNCHANGED lifeVars
                    /\ UNCHANGED execVars
               ELSE VAdd(<<made.node>>, << <<>> >>, args)

MakeReverse ==
  /\ VCanWrap
  /\ \E DIM \in 0..(Rank(vt, VRoot) - 1) :
       VAdd(<<ReverseOp(vt, VRoot, DIM)>>, << <<>> >>, NoArgs)

\* reverse<DIM1, DIM2>(t): ReverseOp<DIM1> over reverse<DIM2>(t)
MakeReverse2 ==
  /\ VCanWrap
  /\ \E DIM1 \in 0..(Rank(vt, VRoot) - 1), DIM2 \in 0..(Rank(vt, VRoot) - 1) :
       LET inner == ReverseOp(vt, VRoot, DIM2)
       IN VAdd(<<inner, ReverseOp(vt \o <<inner>>, VRoot + 1, DIM1)>>,
               << <<>>, <<>> >>, NoArgs)

\* remap<DIM>(op, idx) with idx a rank-0 or rank-1 tensor of valid indices
MakeRemap ==
  /\ VCanWrap
  /\ \E DIM \in 0..(Rank(vt, VRoot) - 1) :
     \E idxRank \in 0..1 :
     \E values \in [1..(idxRank + 1) -> 0..(Size(vt, VRoot, DIM) - 1)] :
       LET idx == Tensor(IF idxRank = 0 THEN <<>> ELSE <<Len(values)>>)
       IN VAdd(<<idx, RemapOp(vt \o <<idx>>, VRoot, VRoot + 1, DIM)>>,
               <<values, <<>> >>, NoArgs)

\* repmat(op, reps) with one factor, or one factor per dimension
MakeRepMat ==
  /\ VCanWrap
  /\ Rank(vt, VRoot) >= 1
  /\ \/ \E reps \in {-1, 0, 2} :
          VAdd(<<RepMatOp(vt, VRoot, reps)>>, << <<>> >>,
               [kind |-> "repmat", op |-> VRoot,
                reps |-> [d \in 1..Rank(vt, VRoot) |-> reps]])
     \/ \E reps \in [1..Rank(vt, VRoot) -> {1, 3}] :
          VAdd(<<RepMatOpArray(vt, VRoot, reps)>>, << <<>> >>,
               [kind |-> "repmat", op |-> VRoot, reps |-> reps])

MakeFlatten ==
  /\ VCanWrap
  /\ Rank(vt, VRoot) > 1
  /\ VAdd(<<FlattenOp(vt, VRoot)>>, << <<>> >>, NoArgs)

MakeHist ==
  /\ VCanWrap
  /\ Rank(vt, VRoot) >= 1
  /\ \E num_levels \in 0..3 :
       VAdd(<<HistOp(vt, VRoot, num_levels)>>, << <<>> >>, NoArgs)

MakeArgMin ==
  /\ VCanWrap
  /\ \E ORank \in ReducedRanks(Rank(vt, VRoot)) :
       VAdd(<<ArgMinOp(vt, VRoot, ORank)>>, << <<>> >>, NoArgs)

\* every node can be indexed without PreRun, at coordinates that exist, and
\* no repeat divides by an extent of zero
Indexable(t) ==
  /\ \A n \in 1..Len(t) : t[n].kind \in ViewKinds \cup {"tensor"}
  /\ \A n \in 1..Len(t) : \A d \in 0..(Rank(t, n) - 1) : Size(t, n, d) >= 0
  /\ \A n \in 1..Len(t) :
       t[n].kind = "repmat" => \A d \in 0..(Rank(t, n) - 1) : Size(t, t[n].kids[1], d) > 0

\* operator()(indices...) on the outermost node
CallIndex ==
  /\ vpc = "build"
  /\ NumOps(vt) >= 1
  /\ Indexable(vt)
  /\ \E c \in Coords(Shape(vt, VRoot)), g \in Garbage :
       vcall' = [op |-> "index", at |-> c, res |-> get_value(vt, vdata, VRoot, c, g)]
  /\ vpc' = "called"
  /\ UNCHANGED <<vt, vdata, vargs>>
  /\ UNCHANGED lifeVars
  /\ UNCHANGED execVars

\* Size(dim) on the outermost node, for dim in range or not
CallSize ==
  /\ vpc = "build"
  /\ NumOps(vt) >= 1
  /\ \E dim \in -1..(Rank(vt, VRoot) + 1) :
     \E r \in SizeCall(vt, VRoot, dim) :
       vcall' = [op |-> "Size", dim |-> dim, res |-> r]
  /\ vpc' = "called"
  /\ UNCHANGED <<vt, vdata, vargs>>
  /\ UNCHANGED lifeVars
  /\ UNCHANGED execVars

NextView ==
  \/ MakeSlice \/ MakeReverse \/ MakeReverse2 \/ MakeRemap \/ MakeRepMat \/ MakeFlatten
  \/ MakeHist \/ MakeArgMin
  \/ CallIndex \/ CallSize

SpecView == InitView /\ [][NextView]_vars

\* ------------------------------------------------------------------------
\* Properties of the view nodes
\* ------------------------------------------------------------------------
\* the outermost node is the slice that vargs describes
SliceBuilt ==
  /\ vargs.kind = "slice"
  /\ ~vargs.err
  /\ vt[VRoot].kind = "slice"
  /\ vt[VRoot].kids[1] = vargs.op

\* a start or end given relative to the end of the dimension
Resolved(v, size) == IF v < 0 THEN size + v ELSE v

\* input dimensions (1-based) a slice keeps, and the j-th of them (j from 0)
KeptSet(ends) == {d \in 1..Len(ends) : ends[d] # matxDropDim}

NthKept(ends, j) ==
  CHOOSE d \in KeptSet(ends) : Cardinality({e \in KeptSet(ends) : e < d}) = j

\* the extent the specification gives input dimension d of the slice
SliceExtent(d) ==
  LET size == Size(vt, vargs.op, d - 1)
      start == Resolved(vargs.starts[d], size)
      end == IF vargs.ends[d] = matxEnd THEN size ELSE Resolved(vargs.ends[d], size)
  IN CeilDiv(end - start, vargs.strides[d])

IsSentinel(v) == v > matxIdxSentinel

\* some resolved, non-sentinel start or end lies outside [0, size]
SliceOutOfRange ==
  \E d \in 1..Len(vargs.starts) :
    LET size == Size(vt, vargs.op, d - 1)
        start == Resolved(vargs.starts[d], size)
        end == Resolved(vargs.ends[d], size)
    IN \/ (~IsSentinel(start) /\ (start < 0 \/ start > size))
       \/ (~IsSentinel(end) /\ (end < 0 \/ end > size))

\* the arguments are in range and no kept dimension ends before it starts
SliceArgsValid ==
  /\ ~SliceOutOfRange
  /\ \A d \in KeptSet(vargs.ends) :
       LET size == Size(vt, vargs.op, d - 1)
       IN Resolved(vargs.starts[d], size)
            <= (IF vargs.ends[d] = matxEnd THEN size ELSE Resolved(vargs.ends[d], size))

\* C11: a constructed slice has as many dimensions as ends that are not the
\* drop sentinel, and each kept dimension has size ceil((end - start) /
\* stride) of its own input dimension.
C11_SliceRankAndSizes ==
  (SliceBuilt /\ SliceArgsValid) =>
    /\ Rank(vt, VRoot) = Cardinality(KeptSet(vargs.ends))
    /\ \A j \in 0..(Rank(vt, VRoot) - 1) :
         Size(vt, VRoot, j) = SliceExtent(NthKept(vargs.ends, j))

\* the inner coordinates the specification gives a slice for local ones
SliceTarget(c) ==
  [d \in 1..Len(vargs.starts) |->
     LET start == Resolved(vargs.starts[d], Size(vt, vargs.op, d - 1))
     IN IF d \in KeptSet(vargs.ends)
          THEN start + c[1 + Cardinality({e \in KeptSet(vargs.ends) : e < d})]
                         * vargs.strides[d]
          ELSE start]

\* C12: the element of a slice over a tensor at local coordinates is the
\* tensor's element at starts[dim] + i * stride[dim] in each kept dimension
\* and at starts[dim] in each dropped one.
C12_SliceElement ==
  (SliceBuilt /\ SliceArgsValid /\ vt[vargs.op].kind = "tensor" /\ vcall.op = "index") =>
    vcall.res = [leaf |-> vargs.op, at |-> SliceTarget(vcall.at)]

\* C13: the construction of a slice with a resolved start or end outside
\* [0, size] fails, and a constructed slice holds the resolved starts.
C13_SliceRangeErrors ==
  vargs.kind = "slice" =>
    /\ SliceOutOfRange => vargs.err
    /\ SliceBuilt =>
         \A d \in 1..Len(vargs.starts) :
           vt[VRoot].starts_[d] = Resolved(vargs.starts[d], Size(vt, vargs.op, d - 1))

\* node n reports a non-negative extent in every dimension
ExtentsNonNegative(n) == \A d \in 0..(Rank(vt, n) - 1) : Size(vt, n, d) >= 0

\* the outermost node is a reverse, and the node under it
RootIsReverse == NumOps(vt) >= 1 /\ vt[VRoot].kind = "reverse"

ReverseInner == vt[VRoot].kids[1]

\* coordinate c with its entry in dimension dim mirrored within extent size
Mirrored(c, dim, size) ==
  [d \in 1..Len(c) |-> IF d - 1 = dim THEN size - c[d] - 1 ELSE c[d]]

\* the element of node n at coordinate c is the element the call returned
IsElementOf(n, c) == \E g \in Garbage : vcall.res = get_value(vt, vdata, n, c, g)

\* C14: reverse<DIM>(t) has the size of t in every dimension; its element at
\* (..., i, ...) is t's element at (..., size(DIM) - i - 1, ...), the other
\* coordinates unchanged; and reverse<DIM>(reverse<DIM>(t)) is t at every
\* coordinate.
C14_ReverseSizeElementInvolution ==
  RootIsReverse =>
    /\ Rank(vt, VRoot) = Rank(vt, ReverseInner)
    /\ \A d \in 0..(Rank(vt, VRoot) - 1) : Size(vt, VRoot, d) = Size(vt, ReverseInner, d)
    /\ vcall.op = "index" =>
         /\ IsElementOf(ReverseInner,
                        Mirrored(vcall.at, vt[VRoot].DIM, Size(vt, ReverseInner, vt[VRoot].DIM)))
         /\ (vt[ReverseInner].kind = "reverse" /\ vt[ReverseInner].DIM = vt[VRoot].DIM)
              => IsElementOf(vt[ReverseInner].kids[1], vcall.at)

\* a reverse of a reverse in the same dimension was indexed away from the
\* middle of that dimension
C14_Witness ==
  /\ RootIsReverse
  /\ vt[ReverseInner].kind = "reverse"
  /\ vt[ReverseInner].DIM = vt[VRoot].DIM
  /\ vcall.op = "index"
  /\ Mirrored(vcall.at, vt[VRoot].DIM, Size(vt, VRoot, vt[VRoot].DIM)) # vcall.at
  /\ vcall.res = [leaf |-> 1, at |-> vcall.at]

\* the outermost node is a remap; its operand and its index operator
RootIsRemap == NumOps(vt) >= 1 /\ vt[VRoot].kind = "remap"

RemapInner == vt[VRoot].kids[1]

RemapIdx == vt[VRoot].kids[2]

\* the index the index operator holds for coordinate c (its only one when it
\* has rank 0)
IdxAt(c) == IF Rank(vt, RemapIdx) = 0 THEN vdata[RemapIdx][1] ELSE vdata[RemapIdx][c + 1]

\* C15: remap<DIM>(t, idx) has the rank of t, the length of idx as its size
\* in dimension DIM (1 when idx has rank 0) and t's size in every other
\* dimension; its element at (..., i, ...) is t's element at (..., idx(i), ...),
\* at the one fixed index when idx has rank 0, the other coordinates unchanged.
C15_RemapRankSizeElement ==
  RootIsRemap =>
    /\ Rank(vt, VRoot) = Rank(vt, RemapInner)
    /\ \A d \in 0..(Rank(vt, VRoot) - 1) :
         Size(vt, VRoot, d) = IF d = vt[VRoot].DIM THEN Len(vdata[RemapIdx])
                              ELSE Size(vt, RemapInner, d)
    /\ vcall.op = "index" =>
         IsElementOf(RemapInner,
                     [d \in 1..Len(vcall.at) |->
                        IF d - 1 = vt[VRoot].DIM THEN IdxAt(vcall.at[d]) ELSE vcall.at[d]])

\* a remap through a rank-1 index operator was indexed at a coordinate other
\* than the first, where the index operator holds an index other than its
\* first and other than the coordinate
C15_Witness ==
  /\ RootIsRemap
  /\ Rank(vt, RemapIdx) = 1
  /\ Rank(vt, VRoot) = 2
  /\ vcall.op = "index"
  /\ vcall.at[vt[VRoot].DIM + 1] = 1
  /\ IdxAt(1) # IdxAt(0)
  /\ IdxAt(1) # 1
  /\ vcall.res.at[vt[VRoot].DIM + 1] = IdxAt(1)

\* a remap through a rank-0 index operator has extent 1 in its dimension and
\* its element is read at the fixed index
C15_WitnessScalar ==
  /\ RootIsRemap
  /\ Rank(vt, RemapIdx) = 0
  /\ Size(vt, VRoot, vt[VRoot].DIM) = 1
  /\ vcall.op = "index"
  /\ vcall.res.at[vt[VRoot].DIM + 1] = 2

\* the outermost node is the repeat that vargs describes
RepMatBuilt == vargs.kind = "repmat" /\ VRoot = vargs.op + 1 /\ vt[VRoot].kind = "repmat"

\* C16: repmat(t, reps) has size t.Size(d) * reps[d] in every dimension d
\* (one factor for all dimensions in the scalar form), and its element at
\* (i_0, ..., i_{r-1}) is t's element at (i_0 mod t.Size(0), ...,
\* i_{r-1} mod t.Size(r-1)).
C16_RepMatSizeAndElement ==
  RepMatBuilt =>
    /\ Rank(vt, VRoot) = Rank(vt, vargs.op)
    /\ \A d \in 0..(Rank(vt, VRoot) - 1) :
         Size(vt, VRoot, d) = Size(vt, vargs.op, d) * vargs.reps[d + 1]
    /\ vcall.op = "index" =>
         IsElementOf(vargs.op,
                     [d \in 1..Len(vcall.at) |-> vcall.at[d] % Size(vt, vargs.op, d - 1)])

\* a repeat with different factors per dimension was indexed beyond the
\* operand's extent in one dimension and within it in the other
C16_Witness ==
  /\ RepMatBuilt
  /\ Rank(vt, VRoot) = 2
  /\ vargs.reps = <<1, 3>>
  /\ Size(vt, VRoot, 0) = 3
  /\ Size(vt, VRoot, 1) = 12
  /\ vcall.op = "index"
  /\ vcall.at = <<2, 9>>
  /\ vcall.res = [leaf |-> 1, at |-> <<2, 1>>]

\* the outermost node is a flatten, and the node under it
RootIsFlatten == NumOps(vt) >= 1 /\ vt[VRoot].kind = "flatten"

FlattenInner == vt[VRoot].kids[1]

\* C17: flatten of a node of rank > 1 has rank 1, the product of the inner
\* extents as its size in dimension 0, and at flat index k the inner element
\* at the row-major coordinate tuple of k; indexing it at the flat index of
\* an inner coordinate tuple gives back the inner element at that tuple.
\* (For an inner node whose extents are all non-negative.)
C17_FlattenRankSizeElement ==
  (RootIsFlatten /\ ExtentsNonNegative(FlattenInner)) =>
    /\ Rank(vt, FlattenInner) > 1
    /\ Rank(vt, VRoot) = 1
    /\ Size(vt, VRoot, 0) = Cardinality(Coords(Shape(vt, FlattenInner)))
    /\ vcall.op = "index" =>
         IsElementOf(FlattenInner, RowMajorCoord(Shape(vt, FlattenInner), vcall.at[1]))
    /\ Indexable(vt) =>
         \A c \in Coords(Shape(vt, FlattenInner)) : \A g \in Garbage :
           get_value(vt, vdata, VRoot, <<FlatIndex(Shape(vt, FlattenInner), c)>>, g)
             = get_value(vt, vdata, FlattenInner, c, g)

\* the flatten of a [3,4] operand was indexed at flat index 7, which is the
\* operand's element (1, 3)
C17_Witness ==
  /\ RootIsFlatten
  /\ Shape(vt, FlattenInner) = <<3, 4>>
  /\ Size(vt, VRoot, 0) = 12
  /\ vcall.op = "index"
  /\ vcall.at = <<7>>
  /\ vcall.res = [leaf |-> 1, at |-> <<1, 3>>]

\* a Size call was made with dim outside [0, Rank())
SizeCalledOutOfRange ==
  /\ vcall.op = "Size"
  /\ (vcall.dim < 0 \/ vcall.dim >= Rank(vt, VRoot))

\* C18: for every operator node, Size(dim) with dim outside [0, Rank()) fails
\* with a dimension error instead of returning a value; in particular for
\* flatten, argmin, remap, slice and the transform nodes.
C18_SizeOutOfRangeFails ==
  SizeCalledOutOfRange => vcall.res.err

\* C19: every node that can be constructed reports Size(dim) >= 0 in every
\* dimension: a slice whose resolved end is below its start, a hist with
\* num_levels < 1 and a repeat with a negative factor are rejected at
\* construction.
C19_ExtentsNonNegative ==
  \A n \in 1..Len(vt) : ExtentsNonNegative(n)

\* non-negative extents of hist and repeat alone, whatever a slice does
HistAndRepMatExtentsNonNegative ==
  \A n \in 1..Len(vt) : vt[n].kind \in {"hist", "repmat"} => ExtentsNonNegative(n)

\* non-negative extents of a slice whose starts and ends all lie within
\* [0, size]
InRangeSliceExtentsNonNegative ==
  (SliceBuilt /\ ~SliceOutOfRange) => ExtentsNonNegative(VRoot)

\* ------------------------------------------------------------------------
\* Properties of the capabilities, over the expressions of the lifecycle
\* ------------------------------------------------------------------------
\* what the tensors of a tree may report for the granularity: the largest,
\* but for one tensor that reports any value (the combination keeps the most
\* restrictive value, so one restrictive tensor stands for several)
TensorCaps(t) ==
  {[n \in 1..Len(t) |-> IF n = m THEN v ELSE MaxElementsPerThread] :
     m \in {n \in 1..Len(t) : t[n].kind = "tensor"}, v \in ElementsPerThreadValues}

\* the tree with view n taken out: its operand stands in its place
WithoutView(t, n) == [t EXCEPT ![n] = t[t[n].kids[1]]]

WithoutViewCaps(t, n, caps) == [caps EXCEPT ![n] = caps[t[n].kids[1]]]

Granularity(t, caps) == get_capability(t, Root(t), ELEMENTS_PER_THREAD, caps)

\* C20: every slice, reverse, remap, repeat and flatten node reports the
\* smallest granularity, 1, whatever is under it; so a tree with such a view
\* never has a larger granularity than the same tree without it.
C20_ViewGranularityIsOne ==
  \A caps \in TensorCaps(tree) :
    \A n \in Nodes :
      IsView(n) =>
        /\ get_capability(tree, n, ELEMENTS_PER_THREAD, caps) = ONE
        /\ Granularity(tree, caps)
             <= Granularity(WithoutView(tree, n), WithoutViewCaps(tree, n, caps))

\* a view lies under a transform, and with tensors of the largest
\* granularity the tree reports 1 where the tree without the view reports
\* the largest
C20_Witness ==
  \E n \in Nodes :
    /\ IsView(n)
    /\ n # Root(tree)
    /\ IsReduction(Root(tree))
    /\ \E caps \in TensorCaps(tree) :
         /\ Granularity(tree, caps) = ONE
         /\ Granularity(WithoutView(tree, n), WithoutViewCaps(tree, n, caps))
              = MaxElementsPerThread

\* ------------------------------------------------------------------------
\* Single calls: construction of the custom operators and of interp1, the
\* run of the spline's tridiagonal fill, element access of interp1
\* (searchsorted, then interpolate) and the sparse-matrix factories.  vt and
\* vdata hold the operands and their values, vargs the arguments of a
\* factory, vcall the call in progress or its result.
\* ------------------------------------------------------------------------
\* sample coordinates: even, so that a query can lie exactly half way
XPoints == {2 * k : k \in 0..(MaxSamples - 1)}

RECURSIVE Ascending(_)
\* the strictly ascending sequences of n sample coordinates
Ascending(n) ==
  IF n = 0 THEN {<<>>}
  ELSE UNION {{Append(xs, p) : p \in {q \in XPoints : xs = <<>> \/ Last(xs) < q}} :
                xs \in Ascending(n - 1)}

VValues == {0, 3}

InitCalls ==
  /\ LifeIdle
  /\ ExecIdle
  /\ vt = <<>>
  /\ vdata = <<>>
  /\ vargs = NoArgs
  /\ vcall = [op |-> "none"]
  /\ vpc = "build"

\* dctOp(out, in, N)
MakeDctOp ==
  /\ vpc = "build"
  /\ vt = <<>>
  /\ \E N \in 1..MaxSamples :
       /\ vt' = <<Tensor(<<N>>), Tensor(<<N>>), MkNode("dct", <<1, 2>>, 1)>>
       /\ vdata' = << <<>>, <<>>, <<>> >>
  /\ vpc' = "built"
  /\ UNCHANGED <<vargs, vcall>>
  /\ UNCHANGED lifeVars
  /\ UNCHANGED execVars

\* BlackScholes(out, K, V, S, r, T): the members are out_, V_, S_, K_, r_, T_
MakeBlackScholes ==
  /\ vpc = "build"
  /\ vt = <<>>
  /\ \E N \in 1..MaxSamples :
       /\ vt' = [k \in 1..6 |-> Tensor(<<N>>)] \o <<MkNode("blackscholes", <<1, 2, 3, 4, 5, 6>>, 1)>>
       /\ vdata' = [k \in 1..7 |-> <<>>]
  /\ vpc' = "built"
  /\ UNCHANGED <<vargs, vcall>>
  /\ UNCHANGED lifeVars
  /\ UNCHANGED execVars

\* InterpSplineTridiagonalFillOp(dl, d, du, b, x, v), as Interp1Op::PreRun
\* builds it: every operand has the shape of the sample values
MakeTridiagonalFill ==
  /\ vpc = "build"
  /\ vt = <<>>
  /\ \E n \in 1..MaxSamples : \E xs \in Ascending(n), vs \in [1..n -> VValues] :
       /\ vt' = [k \in 1..6 |-> Tensor(<<n>>)] \o <<MkNode("tridiagfill", <<1, 2, 3, 4, 5, 6>>, 1)>>
       /\ vdata' = << <<>>, <<>>, <<>>, <<>>, xs, vs, <<>> >>
  /\ vpc' = "built"
  /\ UNCHANGED <<vargs, vcall>>
  /\ UNCHANGED lifeVars
  /\ UNCHANGED execVars

\* a fraction, not reduced
Frac(num, den) == [num |-> num, den |-> den]

\* InterpSplineTridiagonalFillOp::operator()(idxInterp): the case taken, the
\* indices read from x_ and v_, and what is stored into dl_, d_, du_ and b_
TridiagonalFillRow(t, data, n, idxInterp, g) ==
  LET size == Size(t, t[n].kids[5], 0)
      case == IF idxInterp = 0 THEN "left"
              ELSE IF idxInterp = size - 1 THEN "right" ELSE "interior"
      first == CASE case = "left" -> idxInterp
                 [] case = "right" -> idxInterp - 2
                 [] case = "interior" -> idxInterp - 1
      x0 == TensorValue(t, data, t[n].kids[5], <<first>>, g)
      x1 == TensorValue(t, data, t[n].kids[5], <<first + 1>>, g)
      x2 == TensorValue(t, data, t[n].kids[5], <<first + 2>>, g)
      v0 == TensorValue(t, data, t[n].kids[6], <<first>>, g)
      v1 == TensorValue(t, data, t[n].kids[6], <<first + 1>>, g)
      v2 == TensorValue(t, data, t[n].kids[6], <<first + 2>>, g)
      h0 == x1 - x0
      h1 == x2 - x1
  IN [op |-> "fill", row |-> idxInterp, case |-> case,
      reads |-> {first, first + 1, first + 2},
      dl |-> CASE case = "left" -> 0 [] case = "right" -> h0 + h1 [] case = "interior" -> h1,
      d |-> CASE case = "left" -> h1 [] case = "right" -> h0 [] case = "interior" -> 2 * (h0 + h1),
      du |-> CASE case = "left" -> h1 + h0 [] case = "right" -> 0 [] case = "interior" -> h0,
      b |-> CASE case = "left" ->
                   Frac((2 * h1 + 3 * h0) * h1 * h1 * (v1 - v0) + h0 * h0 * h0 * (v2 - v1),
                        h0 * h1 * (h1 + h0))
              [] case = "right" ->
                   Frac((2 * h0 + 3 * h1) * h0 * h0 * (v2 - v1) + h1 * h1 * h1 * (v1 - v0),
                        h0 * h1 * (h0 + h1))
              [] case = "interior" ->
                   Frac(3 * ((v2 - v1) * h0 * h0 + (v1 - v0) * h1 * h1), h0 * h1)]

\* one row of the run of the fill operator
FillRow ==
  /\ vpc = "built"
  /\ vt[VRoot].kind = "tridiagfill"
  /\ \E idxInterp \in 0..(Size(vt, 5, 0) - 1), g \in Garbage :
       vcall' = TridiagonalFillRow(vt, vdata, VRoot, idxInterp, g)
  /\ vpc' = "called"
  /\ UNCHANGED <<vt, vdata, vargs>>
  /\ UNCHANGED lifeVars
  /\ UNCHANGED execVars

\* the shapes interp1 is constructed over: sample points and values with or
\* without a batch dimension, query points of at least their rank
BatchSizes == 1..2

SampleShapes == {<<n>> : n \in 1..MaxSamples} \cup {<<b, n>> : b \in BatchSizes, n \in 1..MaxSamples}

QueryShapes == {<<1>>} \cup {<<b, 1>> : b \in BatchSizes}

QueryPoints == (0 - 1)..(2 * MaxSamples - 1)

\* the values of a tensor of the shape, every batch holding the same row
Rows(shape, row) ==
  IF Len(shape) = 1 THEN row
  ELSE [k \in 1..(shape[1] * shape[2]) |-> row[((k - 1) % shape[2]) + 1]]

\* the sample points and values a construction is given: every ascending
\* x and every v when no operand has a batch dimension and the shapes agree,
\* one x and one v otherwise
SamplePoints(sx, sv, sq) ==
  IF Len(sq) = 1 /\ Last(sx) = Last(sv) THEN Ascending(Last(sx))
  ELSE {[k \in 1..Last(sx) |-> 2 * (k - 1)]}

SampleValues(sx, sv, sq) ==
  IF Len(sq) = 1 /\ Last(sx) = Last(sv) THEN [1..Last(sv) -> VValues]
  ELSE {[k \in 1..Last(sv) |-> 3 * (k % 2)]}

\* interp1(x, v, xq, method): the constructor of Interp1Op throws
\* matxInvalidSize or stores the operands; nothing else happens
MakeInterp1 ==
  /\ vpc = "build"
  /\ vt = <<>>
  /\ \E sx \in SampleShapes, sv \in SampleShapes, sq \in QueryShapes, method \in Methods :
     \E xs \in SamplePoints(sx, sv, sq), vs \in SampleValues(sx, sv, sq), q \in QueryPoints :
       LET ops == <<Tensor(sx), Tensor(sv), Tensor(sq)>>
           datas == <<Rows(sx, xs), Rows(sv, vs), Rows(sq, <<q>>)>>
       IN /\ Len(sq) >= Len(sx)
          /\ Len(sq) >= Len(sv)
          /\ vargs' = [kind |-> "interp1", x |-> 1, v |-> 2, xq |-> 3, method |-> method]
          /\ IF Interp1Compatible(ops, 1, 2, 3)
               THEN /\ vt' = Append(ops, Interp1Op(ops, 1, 2, 3, method))
                    /\ vdata' = Append(datas, <<>>)
                    /\ vcall' = [op |-> "ctor", err |-> "none"]
                    /\ vpc' = "built"
               ELSE /\ vt' = ops
                    /\ vdata' = datas
                    /\ vcall' = [op |-> "ctor", err |-> "matxInvalidSize"]
                    /\ vpc' = "failed"
  /\ UNCHANGED lifeVars
  /\ UNCHANGED execVars

\* get_value(op, idx) of an operand of interp1: the operand is read at the
\* trailing coordinates of idx
OperandAt(t, data, n, idx, g) ==
  TensorValue(t, data, n, SubSeq(idx, Len(idx) - Rank(t, n) + 1, Len(idx)), g)

\* Interp1Op::searchsorted up to its loop: the brackets returned at once, or
\* the bracket the bisection starts from
SearchSortedBounds(t, data, n, idx, x_query, g) ==
  LET x_ == t[n].kids[1]
      AXIS == Rank(t, n) - 1
      size == Size(t, x_, Rank(t, x_) - 1)
      x_low == OperandAt(t, data, x_, SetAt(idx, AXIS, 0), g)
      x_high == OperandAt(t, data, x_, SetAt(idx, AXIS, size - 1), g)
  IN IF x_query < x_low THEN [idx_low |-> size, idx_high |-> 0, returned |-> TRUE]
     ELSE IF x_query = x_low THEN [idx_low |-> 0, idx_high |-> 0, returned |-> TRUE]
     ELSE IF x_query > x_high THEN [idx_low |-> size - 1, idx_high |-> size, returned |-> TRUE]
     ELSE IF x_query = x_high
       THEN [idx_low |-> size - 1, idx_high |-> size - 1, returned |-> TRUE]
     ELSE [idx_low |-> 0, idx_high |-> size - 1, returned |-> FALSE]

\* a bisection that takes the lower end of the bracket as its middle
SearchSortedIterationNoProgress(t, data, n, idx, x_query, low, high, g) ==
  LET idx_mid == low
      x_mid == OperandAt(t, data, t[n].kids[1], SetAt(idx, Rank(t, n) - 1, idx_mid), g)
  IN IF high - low > 1
       THEN IF x_query = x_mid
              THEN [idx_low |-> idx_mid, idx_high |-> idx_mid, returned |-> TRUE]
            ELSE IF x_query < x_mid
              THEN [idx_low |-> low, idx_high |-> idx_mid, returned |-> FALSE]
            ELSE [idx_low |-> idx_mid, idx_high |-> high, returned |-> FALSE]
       ELSE [idx_low |-> low, idx_high |-> high, returned |-> TRUE]

\* a bisection that brackets an exact match of the middle sample by the
\* middle and its successor
SearchSortedIterationNoMatch(t, data, n, idx, x_query, low, high, g) ==
  LET idx_mid == (low + high) \div 2
      x_mid == OperandAt(t, data, t[n].kids[1], SetAt(idx, Rank(t, n) - 1, idx_mid), g)
  IN IF high - low > 1
       THEN IF x_query = x_mid
              THEN [idx_low |-> idx_mid, idx_high |-> idx_mid + 1, returned |-> TRUE]
            ELSE IF x_query < x_mid
              THEN [idx_low |-> low, idx_high |-> idx_mid, returned |-> FALSE]
            ELSE [idx_low |-> idx_mid, idx_high |-> high, returned |-> FALSE]
       ELSE [idx_low |-> low, idx_high |-> high, returned |-> TRUE]

\* Interp1Op::searchsorted, one test of the loop condition and, when it
\* holds, one pass through the loop body
SearchSortedIteration(t, data, n, idx, x_query, low, high, g) ==
  LET idx_mid == (low + high) \div 2
      x_mid == OperandAt(t, data, t[n].kids[1], SetAt(idx, Rank(t, n) - 1, idx_mid), g)
  IN IF high - low > 1
       THEN IF x_query = x_mid
              THEN [idx_low |-> idx_mid, idx_high |-> idx_mid, returned |-> TRUE]
            ELSE IF x_query < x_mid
              THEN [idx_low |-> low, idx_high |-> idx_mid, returned |-> FALSE]
            ELSE [idx_low |-> idx_mid, idx_high |-> high, returned |-> FALSE]
       ELSE [idx_low |-> low, idx_high |-> high, returned |-> TRUE]

\* Interp1Op::operator()(indices...): the query point is read and
\* searchsorted runs up to its loop
SearchBegin ==
  /\ vpc = "built"
  /\ vt[VRoot].kind = "interp1"
  /\ \E b \in 0..(Size(vt, VRoot, 0) - 1), g \in Garbage :
       LET idx == IF Rank(vt, VRoot) = 1 THEN <<0>> ELSE <<b, 0>>
           x_query == OperandAt(vt, vdata, vt[VRoot].kids[3], idx, g)
           r == SearchSortedBounds(vt, vdata, VRoot, idx, x_query, g)
       IN /\ vcall' = [op |-> "searchsorted", idx |-> idx, x_query |-> x_query,
                       idx_low |-> r.idx_low, idx_high |-> r.idx_high]
          /\ vpc' = IF r.returned THEN "found" ELSE "loop"
  /\ UNCHANGED <<vt, vdata, vargs>>
  /\ UNCHANGED lifeVars
  /\ UNCHANGED execVars

\* one iteration of the bisection
SearchStep ==
  /\ vpc = "loop"
  /\ \E g \in Garbage :
       LET r == SearchSortedIteration(vt, vdata, VRoot, vcall.idx, vcall.x_query,
                                      vcall.idx_low, vcall.idx_high, g)
       IN /\ vcall' = [vcall EXCEPT !.idx_low = r.idx_low, !.idx_high = r.idx_high]
          /\ vpc' = IF r.returned THEN "found" ELSE "loop"
  /\ UNCHANGED <<vt, vdata, vargs>>
  /\ UNCHANGED lifeVars
  /\ UNCHANGED execVars

\* get_value(x_, idx) and get_value(v_, idx) with idx[AXIS] = k
XAt(t, data, n, idx, k, g) ==
  OperandAt(t, data, t[n].kids[1], SetAt(idx, Rank(t, n) - 1, k), g)

VAt(t, data, n, idx, k, g) ==
  OperandAt(t, data, t[n].kids[2], SetAt(idx, Rank(t, n) - 1, k), g)

SampleCount(t, n) == Size(t, t[n].kids[1], Rank(t, t[n].kids[1]) - 1)

\* Interp1Op::interpolate_linear
interpolate_linear(t, data, n, idx, x_query, idx_low, idx_high, g) ==
  IF idx_high = 0 \/ idx_low = idx_high THEN Frac(VAt(t, data, n, idx, idx_high, g), 1)
  ELSE IF idx_low = SampleCount(t, n) - 1 THEN Frac(VAt(t, data, n, idx, idx_low, g), 1)
  ELSE LET x_low == XAt(t, data, n, idx, idx_low, g)
           x_high == XAt(t, data, n, idx, idx_high, g)
           v_low == VAt(t, data, n, idx, idx_low, g)
           v_high == VAt(t, data, n, idx, idx_high, g)
       IN Frac(v_low * (x_high - x_low) + (x_query - x_low) * (v_high - v_low),
               x_high - x_low)

\* Interp1Op::interpolate_nearest
interpolate_nearest(t, data, n, idx, x_query, idx_low, idx_high, g) ==
  IF idx_low = SampleCount(t, n) THEN Frac(VAt(t, data, n, idx, idx_high, g), 1)
  ELSE IF idx_high = SampleCount(t, n) THEN Frac(VAt(t, data, n, idx, idx_low, g), 1)
  ELSE LET x_low == XAt(t, data, n, idx, idx_low, g)
           x_high == XAt(t, data, n, idx, idx_high, g)
       IN IF x_query - x_low < x_high - x_query
            THEN Frac(VAt(t, data, n, idx, idx_low, g), 1)
            ELSE Frac(VAt(t, data, n, idx, idx_high, g), 1)

\* Interp1Op::interpolate_next
interpolate_next(t, data, n, idx, x_query, idx_low, idx_high, g) ==
  IF idx_high = SampleCount(t, n) THEN Frac(VAt(t, data, n, idx, idx_low, g), 1)
  ELSE Frac(VAt(t, data, n, idx, idx_high, g), 1)

\* a previous-value method that reads the lower end of every bracket
interpolate_prev_lower_end(t, data, n, idx, x_query, idx_low, idx_high, g) ==
  Frac(VAt(t, data, n, idx, idx_low, g), 1)

\* Interp1Op::interpolate_prev
interpolate_prev(t, data, n, idx, x_query, idx_low, idx_high, g) ==
  IF idx_low = SampleCount(t, n) THEN Frac(VAt(t, data, n, idx, idx_high, g), 1)
  ELSE Frac(VAt(t, data, n, idx, idx_low, g), 1)

\* Interp1Op::interpolate_spline, with the derivatives m_low and m_high that
\* m_ holds at the two ends of the segment; t = h_low / h and s = h_high / h
\* are kept as fractions over h
interpolate_spline(t, data, n, idx, x_query, idx_low, idx_high, m_low, m_high, g) ==
  IF idx_high = idx_low THEN Frac(VAt(t, data, n, idx, idx_low, g), 1)
  ELSE LET low == IF idx_low = SampleCount(t, n) THEN 0
                  ELSE IF idx_high = SampleCount(t, n) THEN SampleCount(t, n) - 2
                  ELSE idx_low
           high == IF idx_low = SampleCount(t, n) THEN 1
                   ELSE IF idx_high = SampleCount(t, n) THEN SampleCount(t, n) - 1
                   ELSE idx_high
           x_low == XAt(t, data, n, idx, low, g)
           x_high == XAt(t, data, n, idx, high, g)
           v_low == VAt(t, data, n, idx, low, g)
           v_high == VAt(t, data, n, idx, high, g)
           v_diff == v_high - v_low
           h == x_high - x_low
           h_low == x_query - x_low
           h_high == x_high - x_query
       IN Frac(h_high * v_low * h * h + h_low * v_high * h * h
                 + (h * (m_low * h_high - m_high * h_low) + v_diff * (h_low - h_high))
                     * h_low * h_high,
               h * h * h)

\* Interp1Op::interpolate
interpolate(t, data, n, idx, x_query, idx_low, idx_high, m_low, m_high, g) ==
  CASE t[n].method_ = "LINEAR" -> interpolate_linear(t, data, n, idx, x_query, idx_low, idx_high, g)
    [] t[n].method_ = "NEAREST" -> interpolate_nearest(t, data, n, idx, x_query, idx_low, idx_high, g)
    [] t[n].method_ = "NEXT" -> interpolate_next(t, data, n, idx, x_query, idx_low, idx_high, g)
    [] t[n].method_ = "PREV" -> interpolate_prev(t, data, n, idx, x_query, idx_low, idx_high, g)
    [] t[n].method_ = "SPLINE" ->
         interpolate_spline(t, data, n, idx, x_query, idx_low, idx_high, m_low, m_high, g)
    [] OTHER -> interpolate_linear(t, data, n, idx, x_query, idx_low, idx_high, g)

\* the derivatives that PreRun may have stored in m_
Derivatives == {0, 1}

\* Interp1Op::operator(), after searchsorted has returned: interpolate
Interpolate ==
  /\ vpc = "found"
  /\ \E g \in Garbage, m_low \in Derivatives, m_high \in Derivatives :
       /\ vt[VRoot].method_ # "SPLINE" => m_low = 0 /\ m_high = 0
       /\ vcall' = [op |-> "interp1", idx |-> vcall.idx, x_query |-> vcall.x_query,
                    idx_low |-> vcall.idx_low, idx_high |-> vcall.idx_high,
                    val |-> interpolate(vt, vdata, VRoot, vcall.idx, vcall.x_query,
                                        vcall.idx_low, vcall.idx_high, m_low, m_high, g)]
  /\ vpc' = "called"
  /\ UNCHANGED <<vt, vdata, vargs>>
  /\ UNCHANGED lifeVars
  /\ UNCHANGED execVars

\* the storage formats of the tensor format DSL that the factories name
Formats == {"COO", "CSR", "CSC"}

\* sizeof of the value, coordinate and position types
TypeSizes == {4, 8}

\* make_sparse_matrix<VAL, CRD, POS, TF>: the buffers are wrapped with their
\* sizes in bytes; a buffer holds as many entries as its bytes make
make_sparse_matrix(TF, shape, vsz, c0sz, c1sz, p0sz, p1sz, sizeofVAL, sizeofCRD, sizeofPOS) ==
  [format |-> TF, shape |-> shape,
   values |-> vsz \div sizeofVAL,
   crd |-> <<c0sz \div sizeofCRD, c1sz \div sizeofCRD>>,
   pos |-> <<p0sz \div sizeofPOS, p1sz \div sizeofPOS>>]

\* make_coo(val, row, col, shape, nse): POS is int
make_coo(shape, nse, sizeofVAL, sizeofCRD) ==
  LET vsz == nse * sizeofVAL
      csz == nse * sizeofCRD
  IN make_sparse_matrix("COO", shape, vsz, csz, csz, 0, 0, sizeofVAL, sizeofCRD, 4)

\* make_csr(val, rowp, col, shape, nse)
make_csr(shape, nse, sizeofVAL, sizeofCRD, sizeofPOS) ==
  LET vsz == nse * sizeofVAL
      csz == nse * sizeofCRD
      psz == (shape[1] + 1) * sizeofPOS
  IN make_sparse_matrix("CSR", shape, vsz, 0, csz, 0, psz, sizeofVAL, sizeofCRD, sizeofPOS)

\* make_csc(val, row, colp, shape, nse)
make_csc(shape, nse, sizeofVAL, sizeofCRD, sizeofPOS) ==
  LET vsz == nse * sizeofVAL
      csz == nse * sizeofCRD
      psz == (shape[2] + 1) * sizeofPOS
  IN make_sparse_matrix("CSR", shape, vsz, 0, csz, 0, psz, sizeofVAL, sizeofCRD, sizeofPOS)

\* one call of a sparse-matrix factory
MakeSparse ==
  /\ vpc = "build"
  /\ vt = <<>>
  /\ \E factory \in {"make_coo", "make_csr", "make_csc"} :
     \E rows \in 1..MaxExtent, cols \in 1..MaxExtent, nse \in 0..MaxExtent :
     \E sizeofVAL \in TypeSizes, sizeofCRD \in TypeSizes, sizeofPOS \in TypeSizes :
       vcall' = [op |-> factory, shape |-> <<rows, cols>>, nse |-> nse,
                 result |-> CASE factory = "make_coo" ->
                                   make_coo(<<rows, cols>>, nse, sizeofVAL, sizeofCRD)
                              [] factory = "make_csr" ->
                                   make_csr(<<rows, cols>>, nse, sizeofVAL, sizeofCRD, sizeofPOS)
                              [] factory = "make_csc" ->
                                   make_csc(<<rows, cols>>, nse, sizeofVAL, sizeofCRD, sizeofPOS)]
  /\ vpc' = "called"
  /\ UNCHANGED <<vt, vdata, vargs>>
  /\ UNCHANGED lifeVars
  /\ UNCHANGED execVars

NextCalls ==
  \/ MakeDctOp \/ MakeBlackScholes \/ MakeTridiagonalFill
  \/ FillRow
  \/ MakeInterp1 \/ SearchBegin \/ SearchStep \/ Interpolate
  \/ MakeSparse

SpecCalls == InitCalls /\ [][NextCalls]_vars

\* a call that has entered the bisection runs it on: the loop is sequential
\* code of one thread
SpecSearch == InitCalls /\ [][NextCalls]_vars /\ WF_vars(SearchStep)

\* ------------------------------------------------------------------------
\* Properties of the single calls
\* ------------------------------------------------------------------------
CapabilityKinds == {ELEMENTS_PER_THREAD, OTHER_CAPABILITY}

\* what the tensors of vt may report for a kind: the default, but for one
\* tensor that reports any value of the kind
TensorCapsOf(Cap) ==
  {[n \in 1..Len(vt) |-> IF n = m THEN v ELSE default_value(Cap)] :
     m \in {n \in 1..Len(vt) : vt[n].kind = "tensor"},
     v \in IF Cap = ELEMENTS_PER_THREAD THEN ElementsPerThreadValues ELSE {0, 1}}

\* the value a node kind declares for a capability kind
Declared(kind, Cap) ==
  IF Cap = ELEMENTS_PER_THREAD /\ kind \in ViewKinds \cup {"interp1", "dct", "tridiagfill"}
    THEN ONE ELSE default_value(Cap)

\* C21: for every operator node kind and every capability kind, the node's
\* value is its declared value (the default when it declares none) combined
\* with the values of every inner node it holds, none left out: the index
\* operator of remap, out and in of dctOp and BlackScholes, and the six
\* operands of the tridiagonal fill included.
C21_CapabilityCombinesEveryOperand ==
  \A Cap \in CapabilityKinds : \A caps \in TensorCapsOf(Cap) :
    \A n \in 1..Len(vt) :
      vt[n].kind # "tensor" =>
        get_capability(vt, n, Cap, caps)
          = combine_capabilities(Cap, {Declared(vt[n].kind, Cap)}
                \cup {get_capability(vt, k, Cap, caps) : k \in Range(vt[n].kids)})

\* C30: the fill of the tridiagonal system handles every row in [0, n) by
\* exactly one of the three cases and reads sample points and values only
\* at indices within [0, n), for every sample count the constructor accepts.
C30_FillReadsWithinSamples ==
  vcall.op = "fill" =>
    /\ vcall.row \in 0..(Size(vt, 5, 0) - 1)
    /\ vcall.case \in {"left", "right", "interior"}
    /\ vcall.reads \subseteq 0..(Size(vt, 5, 0) - 1)

\* the interp1 node of a call, its samples and the bracket of the call
Searched == vcall.op = "searchsorted" /\ vpc = "found"

Interpolated == vcall.op = "interp1"

Method == vt[VRoot].method_

NSamples == SampleCount(vt, VRoot)

X(k) == XAt(vt, vdata, VRoot, vcall.idx, k, 0)

V(k) == VAt(vt, vdata, VRoot, vcall.idx, k, 0)

FracEq(a, b) == a.den # 0 /\ b.den # 0 /\ a.num * b.den = b.num * a.den

\* C22: NEAREST interpolation of a query strictly between two adjacent
\* samples and exactly equidistant from both returns v[k], the value of the
\* lower-indexed sample.
C22_NearestTieTakesLower ==
  (Interpolated /\ Method = "NEAREST") =>
    \A k \in 0..(NSamples - 2) :
      (X(k) < vcall.x_query /\ vcall.x_query < X(k + 1)
         /\ vcall.x_query - X(k) = X(k + 1) - vcall.x_query)
        => vcall.val = Frac(V(k), 1)

\* C23: NEAREST, NEXT and PREV over n >= 1 ascending samples return v[0]
\* for a query below x[0] and v[n-1] for a query above x[n-1].
C23_FlatExtrapolation ==
  (Interpolated /\ Method \in {"NEAREST", "NEXT", "PREV"}) =>
    /\ vcall.x_query < X(0) => vcall.val = Frac(V(0), 1)
    /\ vcall.x_query > X(NSamples - 1) => vcall.val = Frac(V(NSamples - 1), 1)

C23_Witness ==
  /\ Interpolated
  /\ Method = "PREV"
  /\ NSamples >= 2
  /\ vcall.x_query < X(0)
  /\ V(0) # V(NSamples - 1)
  /\ vcall.val = Frac(V(0), 1)

C23_WitnessAbove ==
  /\ Interpolated
  /\ Method = "NEXT"
  /\ NSamples >= 2
  /\ vcall.x_query > X(NSamples - 1)
  /\ V(0) # V(NSamples - 1)
  /\ vcall.val = Frac(V(NSamples - 1), 1)

\* the line through samples a and b, at q
LineThrough(a, b, q) ==
  Frac(V(a) * (X(b) - X(a)) + (q - X(a)) * (V(b) - V(a)), X(b) - X(a))

\* C24: LINEAR and SPLINE extrapolate a query outside [x[0], x[n-1]] by
\* extending the boundary segment: LINEAR returns
\* v[0] + (q - x[0]) * (v[1] - v[0]) / (x[1] - x[0]) below x[0] and the
\* symmetric extension of the last segment above x[n-1], which differs from
\* v[0] (v[n-1]) whenever the boundary segment's slope is not zero; SPLINE
\* evaluates the cubic of the boundary segment.
C24_LinearAndSplineExtendBoundarySegment ==
  (Interpolated /\ NSamples >= 2) =>
    /\ (Method = "LINEAR" /\ vcall.x_query < X(0)) =>
         /\ FracEq(vcall.val, LineThrough(0, 1, vcall.x_query))
         /\ V(1) # V(0) => ~FracEq(vcall.val, Frac(V(0), 1))
    /\ (Method = "LINEAR" /\ vcall.x_query > X(NSamples - 1)) =>
         /\ FracEq(vcall.val, LineThrough(NSamples - 2, NSamples - 1, vcall.x_query))
         /\ V(NSamples - 1) # V(NSamples - 2) => ~FracEq(vcall.val, Frac(V(NSamples - 1), 1))
    /\ (Method = "SPLINE" /\ vcall.x_query < X(0)) =>
         \E m_low \in Derivatives, m_high \in Derivatives :
           vcall.val = interpolate_spline(vt, vdata, VRoot, vcall.idx, vcall.x_query,
                                          0, 1, m_low, m_high, 0)
    /\ (Method = "SPLINE" /\ vcall.x_query > X(NSamples - 1)) =>
         \E m_low \in Derivatives, m_high \in Derivatives :
           vcall.val = interpolate_spline(vt, vdata, VRoot, vcall.idx, vcall.x_query,
                                          NSamples - 2, NSamples - 1, m_low, m_high, 0)

\* the LINEAR half of the statement alone
LinearExtendsBoundarySegment ==
  (Interpolated /\ NSamples >= 2 /\ Method = "LINEAR" /\ vcall.x_query < X(0)) =>
    FracEq(vcall.val, LineThrough(0, 1, vcall.x_query))

\* the SPLINE half of the statement alone
SplineExtendsBoundarySegment ==
  (Interpolated /\ NSamples >= 2 /\ Method = "SPLINE") =>
    /\ vcall.x_query < X(0) =>
         \E m_low \in Derivatives, m_high \in Derivatives :
           vcall.val = interpolate_spline(vt, vdata, VRoot, vcall.idx, vcall.x_query,
                                          0, 1, m_low, m_high, 0)
    /\ vcall.x_query > X(NSamples - 1) =>
         \E m_low \in Derivatives, m_high \in Derivatives :
           vcall.val = interpolate_spline(vt, vdata, VRoot, vcall.idx, vcall.x_query,
                                          NSamples - 2, NSamples - 1, m_low, m_high, 0)

\* the operands a construction of interp1 was given
Interp1Called == vargs.kind = "interp1"

LastDimsDiffer == Last(vt[1].shape_) # Last(vt[2].shape_)

BatchDimsDiffer(n) ==
  \E ri \in 2..Len(vt[n].shape_) :
    vt[3].shape_[Len(vt[3].shape_) - ri + 1] # vt[n].shape_[Len(vt[n].shape_) - ri + 1]

\* C25: the construction of an interp1 node whose sample points and values
\* differ in the size of the last dimension, or whose batch dimensions of
\* sample points or values differ from those of the query points, fails at
\* once with an invalid-size error; a construction, failed or not, allocates
\* no buffer and computes nothing.
C25_Interp1ConstructorChecks ==
  Interp1Called =>
    /\ (LastDimsDiffer \/ BatchDimsDiffer(1) \/ BatchDimsDiffer(2)) <=> vpc = "failed"
    /\ vpc = "failed" =>
         /\ vcall = [op |-> "ctor", err |-> "matxInvalidSize"]
         /\ Len(vt) = 3
    /\ vcall.op = "ctor" =>
         /\ mem.heap = <<>>
         /\ mem.log = <<>>
         /\ \A n \in 1..3 : vt[n].kind = "tensor"

C25_Witness ==
  /\ Interp1Called
  /\ vpc = "failed"
  /\ ~LastDimsDiffer
  /\ ~BatchDimsDiffer(1)
  /\ BatchDimsDiffer(2)

C25_WitnessBuilt ==
  /\ Interp1Called
  /\ vpc = "built"
  /\ vcall.op = "ctor"
  /\ Len(vt[1].shape_) = 2
  /\ vt[VRoot].kind = "interp1"

\* C26: every sparse-matrix factory returns a tensor in the format it is
\* named for: make_coo COO with two coordinate buffers of nse entries and no
\* position buffer; make_csr CSR with column coordinates of nse entries and
\* a row-position buffer of shape[0]+1 entries; make_csc CSC with row
\* coordinates of nse entries and a column-position buffer of shape[1]+1
\* entries.
C26_FactoriesReturnNamedFormat ==
  /\ vcall.op = "make_coo" =>
       /\ vcall.result.format = "COO"
       /\ vcall.result.crd = <<vcall.nse, vcall.nse>>
       /\ vcall.result.pos = <<0, 0>>
  /\ vcall.op = "make_csr" =>
       /\ vcall.result.format = "CSR"
       /\ vcall.result.crd = <<0, vcall.nse>>
       /\ vcall.result.pos = <<0, vcall.shape[1] + 1>>
  /\ vcall.op = "make_csc" =>
       /\ vcall.result.format = "CSC"
       /\ vcall.result.crd = <<0, vcall.nse>>
       /\ vcall.result.pos = <<0, vcall.shape[2] + 1>>

\* the buffers alone, whatever the format
FactoriesWrapNamedBuffers ==
  /\ vcall.op = "make_coo" =>
       vcall.result.crd = <<vcall.nse, vcall.nse>> /\ vcall.result.pos = <<0, 0>>
  /\ vcall.op = "make_csr" =>
       vcall.result.crd = <<0, vcall.nse>> /\ vcall.result.pos = <<0, vcall.shape[1] + 1>>
  /\ vcall.op = "make_csc" =>
       vcall.result.crd = <<0, vcall.nse>> /\ vcall.result.pos = <<0, vcall.shape[2] + 1>>

\* C29: a node that forwards PreRun to an inner operator forwards PostRun to
\* the same inner operator: once its PostRun has returned, every inner node
\* has received as many PostRun calls as PreRun calls, and the temporaries
\* of the transforms nested under it, argmin included, are released.
C29_PostRunForwardedAsPreRun ==
  phase = "done" =>
    \A n \in Nodes :
      Has("PostRunEnd", n) =>
        /\ \A k \in Range(tree[n].kids) : Count("PostRun", k) = Count("PreRun", k)
        /\ \A k \in 1..n : \A h \in CellsOf(k) : ~mem.heap[h].live

\* the same for the nodes that are no argmin and have none beneath them
PostRunForwardedAsPreRunButArgMin ==
  phase = "done" =>
    \A n \in Nodes :
      (Has("PostRunEnd", n) /\ \A k \in 1..n : tree[k].kind # "argmin") =>
        /\ \A k \in Range(tree[n].kids) : Count("PostRun", k) = Count("PreRun", k)
        /\ \A k \in 1..n : \A h \in CellsOf(k) : ~mem.heap[h].live

\* C27: over strictly ascending samples x[0..n-1], n >= 1, searchsorted
\* returns (n, 0) for q < x[0], (n-1, n) for q > x[n-1], (k, k) for q = x[k]
\* and otherwise (k, k+1) with x[k] < q < x[k+1].
C27_SearchSortedBrackets ==
  Searched =>
    LET q == vcall.x_query
        low == vcall.idx_low
        high == vcall.idx_high
    IN IF q < X(0) THEN low = NSamples /\ high = 0
       ELSE IF q > X(NSamples - 1) THEN low = NSamples - 1 /\ high = NSamples
       ELSE IF \E k \in 0..(NSamples - 1) : q = X(k)
         THEN low = high /\ low \in 0..(NSamples - 1) /\ X(low) = q
       ELSE /\ low \in 0..(NSamples - 2)
            /\ high = low + 1
            /\ X(low) < q
            /\ q < X(high)

\* an exact match of an inner sample, found by the loop
C27_Witness ==
  /\ Searched
  /\ NSamples >= 3
  /\ vcall.idx_low = vcall.idx_high
  /\ vcall.idx_low \in 1..(NSamples - 2)

C27_WitnessAdjacent ==
  /\ Searched
  /\ NSamples >= 4
  /\ vcall.idx_low = 2
  /\ vcall.idx_high = 3

Gap == vcall.idx_high - vcall.idx_low

\* C28: the bisection of searchsorted terminates for every n >= 1 and every
\* query: an iteration returns an exact match, or it makes
\* idx_high - idx_low strictly smaller and keeps
\* 0 <= idx_low < idx_high <= n-1, until the gap is at most 1.
C28_BisectionTerminates ==
  /\ [][SearchStep =>
          \/ /\ vpc' = "found"
             /\ \/ Gap <= 1 /\ vcall' = vcall
                \/ Gap' = 0 /\ XAt(vt, vdata, VRoot, vcall.idx, vcall.idx_low', 0) = vcall.x_query
          \/ /\ vpc' = "loop"
             /\ Gap' < Gap
             /\ 0 <= vcall.idx_low'
             /\ vcall.idx_low' < vcall.idx_high'
             /\ vcall.idx_high' <= NSamples - 1]_vars
  /\ (vpc = "loop") ~> (vpc = "found")

\* a bisection that has narrowed its bracket and goes on
C28_Witness ==
  /\ vpc = "loop"
  /\ vcall.idx_low > 0
  /\ Gap > 1

====
